---- MODULE Spec2Model ----
(***************************************************************************)
(* Autosave engine of tt-wordwise (the guarded AutosaveEngine with title   *)
(* tracking and the pendingSaves flag), driven by the useAutosave hook,    *)
(* the browser's timer table and the persistence gateway.                  *)
(*                                                                         *)
(* setTimeout/clearTimeout are modelled by explicit timer tables; a timer  *)
(* that is armed may fire at any later step (network latency is arbitrary, *)
(* so the relative order of timer firings and save completions is free).   *)
(* Each armed timer keeps the delay it was armed with.                     *)
(***************************************************************************)
EXTENDS Bags, FiniteSets, Integers, Sequences, TLC

(***************************************************************************)
(* Program constants                                                       *)
(***************************************************************************)
AUTOSAVE_DELAY == 10000
MAX_RETRY_ATTEMPTS == 3
RETRY_DELAY_BASE == 1000
MIN_CONTENT_CHANGE_LENGTH == 5
SAVED_DISPLAY_MS == 3000

\* grammar check service (times in ms, costs in millionths of a dollar)
THROTTLE_INTERVAL == 2000
DEBOUNCE_INTERVAL == 2000
MAX_COST_PER_HOUR == 100000
MAX_CACHE_SIZE == 100
COST_WINDOW_MS == 3600000
\* grammar API route
MAX_REQUESTS_PER_MINUTE == 20
RATE_WINDOW_MS == 60000
MAX_SENTENCE_LENGTH == 500
CACHE_RETENTION_MS == 24 * 60 * 60 * 1000

(***************************************************************************)
(* Bounds of the model                                                     *)
(***************************************************************************)
\* save chains (calls in flight plus retry timers armed) alive at once
MaxChains == 2
\* timer handles the browser hands out for debounce timers
MaxHandles == 2
\* armed "saved -> idle" display timers that are told apart
MaxIdleTimers == 1
\* length to which the history of a burst is recorded
MaxLog == 2

\* oracle requests made in one behaviour of the grammar service
MaxRequests == 2
\* advances of the clock in one behaviour of the grammar service
MaxTicks == 3
\* edits of the text in one behaviour of the grammar check hooks
MaxEdits == 2
\* advances of the clock in one behaviour of the grammar check hooks
MaxSteps == 5
\* presses of the recheck button in one behaviour
MaxRechecks == 1
\* requests that reach the grammar API in one behaviour
MaxArrivals == 2
\* longest list of suggestions or spelling errors
MaxLen == 3
\* checkText runs in one behaviour of the suggestion lists
MaxSpellRuns == 1
\* starts of the initialization in one behaviour of the spell-check session
MaxInits == 2
\* checkText calls in one behaviour of the spell-check session
MaxCheckTexts == 2

Docs == {"d1"}

Undefined == "undefined"

\* UpdateDocumentData values the editors submit: a record whose domain holds
\* exactly the fields that are present.
Payloads ==
  { [content |-> "hello"],
    [title |-> "Doc", content |-> "hello world"] }

\* the row the gateway holds for a document before the first save
InitialRow == [title |-> "Doc", content |-> ""]

SaveErrorMessage == "Failed to save document"

VARIABLES
  timers,          \* AutosaveEngine.timers: doc -> handle of its debounce timer
  retryAttempts,   \* AutosaveEngine.retryAttempts: doc -> number
  states,          \* AutosaveEngine.states: doc -> AutosaveState
  lastContent,     \* AutosaveEngine.lastContent: doc -> string
  lastTitle,       \* AutosaveEngine.lastTitle: doc -> string
  pendingSaves,    \* AutosaveEngine.pendingSaves: doc -> boolean
  armed,           \* timer table: handle -> armed debounce timer
  retryTimers,     \* timer table: bag of armed retry timers (never cleared)
  idleTimers,      \* timer table: doc -> armed "saved -> idle" timers
  inflight,        \* bag of documentService.saveDoc calls awaiting their result
  persisted,       \* the gateway's row of each document
  opened,          \* useAutosave: the hook is mounted for the document
  lastCall,        \* history: the last call of the engine's API per document
  lastSched,       \* history: payload of the last scheduleAutosave call, if any
  burst,           \* history: the current burst of debounced schedule calls
  carried,         \* history: a save carrying the last scheduled payload began
  sinceExplicit,   \* history: automatic work since the last explicit call
  forceResult,     \* history: outcome of the last resolved forceSave
  exhausted,       \* history: retries ran out and no save has succeeded since
  watch            \* which group of histories this behaviour records

VARIABLES
  now,             \* Date.now()
  ticks,           \* advances of the clock so far
  lastRequestTime, \* grammar service: module variable
  totalCost,       \* grammar service: module variable
  requestCount,    \* grammar service: module variable
  costStore,       \* localStorage['grammarCheck_costTracking'], if set
  cacheStore,      \* localStorage['grammarCheck_cache']: hash -> entry
  requests,        \* fetches of /api/grammar-check awaiting their response
  lastCheck,       \* history: the last checkGrammar call that settled
  started,         \* history: start time of the latest oracle request
  reported,        \* history: costs reported by answered oracle requests
  answered,        \* history: sentence -> its latest successful check
  asked            \* history: the sentences sent to the oracle so far

VARIABLES
  text,            \* the editor: the text the accessors of the hooks read
  timeoutRef,      \* useGrammarCheckOnIdle: due time of the idle timer, if any
  lastTextRef,     \* useGrammarCheckOnIdle: the text last handed on
  timeoutId,       \* DebouncedGrammarChecker: its timer and its sentence
  isChecking,      \* DebouncedGrammarChecker
  lastCheckedText, \* DebouncedGrammarChecker
  checkerReq,      \* the oracle request the checker awaits, if any
  ui,              \* useGrammarCheck: suggestions, scores, isChecking, error
  edits,           \* history: number of edits
  rechecks,        \* history: number of presses of the recheck button
  lastEditAt,      \* history: time of the latest edit
  editBurst,       \* history: number of the burst of edits, and whether no
                   \* timer was pending when it began
  checkLog,        \* history: the checks the checker started
  handed,          \* history: the texts the idle hook handed on
  lastSchedule,    \* history: the latest scheduleCheck call
  outcomeOf        \* history: sentence -> how its latest check ended

checkerVars == << text, timeoutRef, lastTextRef, timeoutId, isChecking,
                  lastCheckedText, checkerReq, ui, edits, rechecks,
                  lastEditAt, editBurst, checkLog, handed, lastSchedule,
                  outcomeOf >>

VARIABLES
  errors,          \* useSpellCheck: the list of spelling errors
  spellRuns,       \* number of checkText runs started
  spellPending,    \* checkText runs awaiting checkWords
  returned         \* what the latest applySuggestion of useSpellCheck returned

spellVars == << errors, spellRuns, spellPending, returned >>

VARIABLES
  lastRequestTimes, \* grammar API: client -> time of its last tracked request
  requestCounts,    \* grammar API: client -> [count, resetTime]
  handlers,         \* grammar API: POST handlers at an await
  arrivals,         \* number of requests that reached the API
  modelCalls,       \* history: the calls of the paid model, with their time
  tracked,          \* history: requests updateRequestTracking counted
  responses         \* history: request -> its response

routeVars == << lastRequestTimes, requestCounts, handlers, arrivals,
                modelCalls, tracked, responses >>

VARIABLES
  build,           \* which hook and library the page is built from
  isInitialized,   \* useSpellCheck
  isInitializing,  \* useSpellCheck
  initError,       \* useSpellCheck: the message, if any
  spellChecker,    \* nspell library: the dictionary is loaded
  isLoading,       \* nspell library
  loadPromise,     \* nspell library: state of the load promise
  initAwait,       \* initialize() of the effect is at its await
  effectDue,       \* the initialize effect runs after this render
  inits,           \* starts of the initialization so far
  initDone,        \* history: an initialize() call has run to its end
  checkRuns,       \* checkText calls so far
  checkPending,    \* checkText calls awaiting checkWords
  spellCalls,      \* history: checkText call -> word lists it posted
  lastRun          \* history: the checkText call that set the errors last

sessionVars == << build, isInitialized, isInitializing, initError,
                  spellChecker, isLoading, loadPromise, initAwait, effectDue,
                  inits, initDone, checkRuns, checkPending, spellCalls,
                  lastRun >>

grammarVars == << now, ticks, lastRequestTime, totalCost, requestCount,
                  costStore, cacheStore, requests, lastCheck, started,
                  reported, answered, asked >>

engineVars ==
  << timers, retryAttempts, states, lastContent, lastTitle, pendingSaves,
     armed, retryTimers, idleTimers, inflight, persisted, opened, lastCall,
     lastSched, burst, carried, sinceExplicit, forceResult, exhausted, watch >>

VARIABLES
  sample,          \* extractCurrentSentence: the text it is called with
  cursorAt,        \* extractCurrentSentence: the cursor offset
  extracted        \* what the latest call returned, if it was called

extractVars == << sample, cursorAt, extracted >>

VARIABLES
  spellCheckCache, \* spellcheck library: the Map, its entries in insertion order
  wordCalls,       \* number of checkWords calls made
  wordResult       \* what the latest call of the library returned, if any

wordVars == << spellCheckCache, wordCalls, wordResult >>

vars == << timers, retryAttempts, states, lastContent, lastTitle, pendingSaves,
           armed, retryTimers, idleTimers, inflight, persisted, opened,
           lastCall, lastSched, burst, carried, sinceExplicit, forceResult,
           exhausted, watch, grammarVars, checkerVars, spellVars,
           routeVars, sessionVars, extractVars, wordVars >>

\* what the actions of one component leave alone
besideEngine == << watch, grammarVars, checkerVars, spellVars, routeVars,
                   sessionVars, extractVars, wordVars >>

besideGrammar == << engineVars, checkerVars, spellVars, routeVars,
                    sessionVars, extractVars, wordVars >>

besideChecker == << engineVars, spellVars, routeVars, sessionVars,
                    extractVars, wordVars >>

besideLists == << engineVars, grammarVars, routeVars, sessionVars,
                  extractVars, wordVars >>

besideRoute == << engineVars, checkerVars, spellVars, sessionVars,
                  extractVars, wordVars >>

besideSession == << build, engineVars, grammarVars, checkerVars, routeVars,
                    extractVars, wordCalls, wordResult >>

besideExtract == << engineVars, grammarVars, checkerVars, spellVars,
                    routeVars, sessionVars, wordVars >>

besideWords == << engineVars, grammarVars, checkerVars, spellVars,
                  routeVars, sessionVars, extractVars >>

historyVars == << lastCall, lastSched, burst, carried, sinceExplicit,
                  forceResult, exhausted >>

\* The histories are recorded one group per behaviour: "debounce" (burst),
\* "calls" (lastCall, lastSched, carried), "retry" (sinceExplicit,
\* exhausted), "force"
\* (forceResult). They never influence the engine, so every group sees every
\* behaviour of the engine.
Watches == {"debounce", "calls", "retry", "force"}

Watch(w, old, new) == IF watch = w THEN new ELSE old

(***************************************************************************)
(* JavaScript Map and object helpers                                       *)
(***************************************************************************)
MapGet(m, k, dflt) == IF k \in DOMAIN m THEN m[k] ELSE dflt

MapSet(m, k, v) == [x \in DOMAIN m \cup {k} |-> IF x = k THEN v ELSE m[x]]

MapDelete(m, k) == [x \in DOMAIN m \ {k} |-> m[x]]

Has(data, f) == f \in DOMAIN data

\* { ...cur, ...updates }
Merge(cur, updates) ==
  [f \in DOMAIN cur \cup DOMAIN updates |->
     IF f \in DOMAIN updates THEN updates[f] ELSE cur[f]]

Min(a, b) == IF a < b THEN a ELSE b

Abs(n) == IF n < 0 THEN -n ELSE n

Pow2(n) == IF n = 0 THEN 1 ELSE IF n = 1 THEN 2 ELSE IF n = 2 THEN 4 ELSE 8

\* the log s extended by e, recorded up to MaxLog entries
Log(s, e) == IF Len(s) < MaxLog THEN Append(s, e) ELSE s

IsPrefix(s, t) == Len(s) <= Len(t) /\ \A i \in 1..Len(s) : s[i] = t[i]

\* the log s extended by e, recorded up to the first entry that leaves the
\* sequence t
LogAlong(s, e, t) == IF IsPrefix(s, t) THEN Append(s, e) ELSE s

(***************************************************************************)
(* Text: a string is the sequence of its characters                        *)
(***************************************************************************)
LowerLetters ==
  << "a", "b", "c", "d", "e", "f", "g", "h", "i", "j", "k", "l", "m",
     "n", "o", "p", "q", "r", "s", "t", "u", "v", "w", "x", "y", "z" >>

UpperLetters ==
  << "A", "B", "C", "D", "E", "F", "G", "H", "I", "J", "K", "L", "M",
     "N", "O", "P", "Q", "R", "S", "T", "U", "V", "W", "X", "Y", "Z" >>

\* the characters that are neither letters nor digits, with their char codes
OtherChars ==
  [c \in {"\n", " ", "!", "'", ",", "-", ".", "?"} |->
     CASE c = "\n" -> 10 [] c = " " -> 32 [] c = "!" -> 33 [] c = "'" -> 39
       [] c = "," -> 44 [] c = "-" -> 45 [] c = "." -> 46 [] c = "?" -> 63]

IndexIn(seq, c) == CHOOSE i \in 1..Len(seq) : seq[i] = c

IsLower(c) == \E i \in 1..26 : LowerLetters[i] = c

IsUpper(c) == \E i \in 1..26 : UpperLetters[i] = c

\* String.prototype.charCodeAt
CharCodeAt(c) ==
  IF IsLower(c) THEN 96 + IndexIn(LowerLetters, c)
  ELSE IF IsUpper(c) THEN 64 + IndexIn(UpperLetters, c)
  ELSE OtherChars[c]

\* String.prototype.toLowerCase
ToLowerCase(str) ==
  [i \in 1..Len(str) |->
     IF IsUpper(str[i]) THEN LowerLetters[IndexIn(UpperLetters, str[i])]
     ELSE str[i]]

IsSpace(c) == c \in {" ", "\n"}

\* String.prototype.trim
Trim(str) ==
  LET solid == {i \in 1..Len(str) : ~IsSpace(str[i])}
  IN  IF solid = {} THEN << >>
      ELSE LET first == CHOOSE i \in solid : \A j \in solid : i <= j
               last == CHOOSE i \in solid : \A j \in solid : j <= i
           IN  SubSeq(str, first, last)

(***************************************************************************)
(* hashSentence: 32-bit integers are kept as two 16-bit halves             *)
(***************************************************************************)
Half == 65536

\* hash = ((hash << 5) - hash) + char; hash = hash & hash
HashStep(h, code) ==
  LET lo == 31 * h.lo + code
  IN  [hi |-> (31 * h.hi + lo \div Half) % Half, lo |-> lo % Half]

HashFold(str) ==
  LET run[i \in 0..Len(str)] ==
        IF i = 0 THEN [hi |-> 0, lo |-> 0]
        ELSE HashStep(run[i - 1], CharCodeAt(str[i]))
  IN  run[Len(str)]

\* Math.abs of the signed 32-bit value
AbsInt32(h) ==
  IF h.hi < Half \div 2 THEN h
  ELSE IF h.lo = 0 THEN [hi |-> Half - h.hi, lo |-> 0]
  ELSE [hi |-> Half - 1 - h.hi, lo |-> Half - h.lo]

Digit36(r) == IF r < 10 THEN ToString(r) ELSE LowerLetters[r - 9]

RECURSIVE ToString36(_)
\* Number.prototype.toString(36) of a non-negative value
ToString36(h) ==
  LET t == (h.hi % 36) * Half + h.lo
      q == [hi |-> h.hi \div 36, lo |-> t \div 36]
  IN  IF q.hi = 0 /\ q.lo = 0 THEN Digit36(t % 36)
      ELSE ToString36(q) \o Digit36(t % 36)

HashSentence(sentence) ==
  ToString36(AbsInt32(HashFold(ToLowerCase(Trim(sentence)))))

(***************************************************************************)
(* AutosaveState                                                           *)
(***************************************************************************)
DefaultState ==
  [status |-> "idle", isDirty |-> FALSE, error |-> Undefined,
   lastSaved |-> Undefined]

GetState(st, d) == MapGet(st, d, DefaultState)

SetState(st, d, updates) == MapSet(st, d, Merge(GetState(st, d), updates))

RetryMessage(n) ==
  "Retrying... (" \o ToString(n) \o "/" \o ToString(MAX_RETRY_ATTEMPTS) \o ")"

(***************************************************************************)
(* isDirty                                                                 *)
(***************************************************************************)
\* isDirty without the length threshold
IsDirtyAnyChange(lc, lt, d, data) ==
  \/ Has(data, "title") /\ data.title # MapGet(lt, d, "")
  \/ Has(data, "content") /\ data.content # MapGet(lc, d, "")

IsDirty(lc, lt, d, data) ==
  LET lastSavedContent == MapGet(lc, d, "")
      lastSavedTitle == MapGet(lt, d, "")
      currentContent ==
        IF Has(data, "content") THEN data.content ELSE lastSavedContent
      currentTitle == IF Has(data, "title") THEN data.title ELSE lastSavedTitle
      titleChanged == currentTitle # lastSavedTitle
      contentDiff == Abs(Len(currentContent) - Len(lastSavedContent))
      contentChanged ==
        /\ Has(data, "content")
        /\ currentContent # lastSavedContent
        /\ (contentDiff >= MIN_CONTENT_CHANGE_LENGTH
              \/ currentTitle # lastSavedTitle)
  IN  titleChanged \/ contentChanged

(***************************************************************************)
(* Timer tables and calls in flight                                        *)
(***************************************************************************)
Handles == 1..MaxHandles

TimersOf(d) == {h \in DOMAIN armed : armed[h].doc = d}

\* clearTimeout(h): a handle that is not armed (never set, already fired) is
\* ignored
ClearTimeout(tbl, h) == MapDelete(tbl, h)

\* setTimeout hands out a handle no armed timer has and no other document
\* still remembers
FreeHandles(tbl, d) ==
  {h \in Handles :
     /\ h \notin DOMAIN tbl
     /\ \A e \in DOMAIN timers \ {d} : timers[e] # h}

NewHandle(tbl, d) == CHOOSE h \in FreeHandles(tbl, d) :
                       \A g \in FreeHandles(tbl, d) : h <= g

CallsOf(b, d) == {c \in BagToSet(b) : c.doc = d}

CountOf(b, d) ==
  LET S == CallsOf(b, d)
      sum[T \in SUBSET S] ==
        IF T = {} THEN 0
        ELSE LET c == CHOOSE x \in T : TRUE
             IN  CopiesIn(c, b) + sum[T \ {c}]
  IN  sum[S]

\* save chains of a document: calls awaiting their result and armed retries
Chains(d) == CountOf(inflight, d) + CountOf(retryTimers, d)

Quiescent(d) == TimersOf(d) = {} /\ Chains(d) = 0

One(x) == SetToBag({x})

RetryDelay(attempts) == RETRY_DELAY_BASE * Pow2(attempts)

\* the waits of one retry chain: 1000, 2000, 4000 ms
BackoffWaits == << 1000, 2000, 4000 >>

(***************************************************************************)
(* Initial state: the engine singleton right after construction            *)
(***************************************************************************)
EmptyMap == [x \in {} |-> 0]

\* the last explicit call of a document: the method, the branch it took,
\* isDirty of its payload, and whether a persistence call was in flight
NoCall == [op |-> "none", effect |-> "none", dirty |-> FALSE,
           inFlight |-> FALSE]

NoBurst == [n |-> 0, first |-> {}, last |-> {}, saves |-> << >>]

NoAuto == [waits |-> << >>, errors |-> 0, callsAfterError |-> FALSE]

NoForce == [resolved |-> FALSE, returned |-> FALSE, saved |-> FALSE]

EngineInit ==
  /\ timers = EmptyMap
  /\ retryAttempts = EmptyMap
  /\ states = EmptyMap
  /\ lastContent = EmptyMap
  /\ lastTitle = EmptyMap
  /\ pendingSaves = EmptyMap
  /\ armed = EmptyMap
  /\ retryTimers = EmptyBag
  /\ idleTimers = [d \in Docs |-> 0]
  /\ inflight = EmptyBag
  /\ persisted = [d \in Docs |-> InitialRow]
  /\ opened = [d \in Docs |-> FALSE]
  /\ lastCall = [d \in Docs |-> NoCall]
  /\ lastSched = [d \in Docs |-> {}]
  /\ burst = [d \in Docs |-> NoBurst]
  /\ carried = [d \in Docs |-> FALSE]
  /\ sinceExplicit = [d \in Docs |-> NoAuto]
  /\ forceResult = [d \in Docs |-> NoForce]
  /\ exhausted = [d \in Docs |-> FALSE]

(***************************************************************************)
(* cancelAutosave, as the engine state it leaves                           *)
(***************************************************************************)
CancelTimersMap(d) == MapDelete(timers, d)

CancelArmed(d) ==
  IF d \in DOMAIN timers THEN ClearTimeout(armed, timers[d]) ELSE armed

CancelStates(d) ==
  IF GetState(states, d).status = "pending"
    THEN SetState(states, d, [status |-> "idle"])
    ELSE states

(***************************************************************************)
(* performAutosave up to its await: the flag, the status, the gateway call *)
(***************************************************************************)
BeginSave(st, d, data, force) ==
  /\ pendingSaves' = MapSet(pendingSaves, d, TRUE)
  /\ states' = SetState(st, d, [status |-> "saving"])
  /\ inflight' = inflight (+) One([doc |-> d, data |-> data, force |-> force])

\* a save begun by a timer (debounce or retry), as the histories see it
TimerSaveHistory(d, data) ==
  /\ carried' = Watch("calls", carried,
         [carried EXCEPT ![d] = @ \/ data \in lastSched[d]])
  /\ sinceExplicit' = Watch("retry", sinceExplicit,
         [sinceExplicit EXCEPT
            ![d].callsAfterError = @ \/ sinceExplicit[d].errors > 0])

\* the finally block: the flag is cleared unless a retry is counted
FinallyPending(ps, ra, d) ==
  IF MapGet(ra, d, 0) # 0 THEN ps ELSE MapSet(ps, d, FALSE)

\* whether the promise of performAutosave rejects: the catch block handles
\* the error thrown for a failed result and nothing is thrown after it
PerformAutosaveRejects(saved) == FALSE

\* forceSave: try { await performAutosave; return true } catch { return false }
ForceSaveReturns(saved) == ~PerformAutosaveRejects(saved)

(***************************************************************************)
(* useAutosave mounts: initializeDocument(documentId, initialContent)      *)
(***************************************************************************)
\* a baseline taken from the row the editor was opened with
TitleOfRow(d) == persisted[d].title

\* this.lastTitle.set(documentId, ''): the title recorded as last saved
TitleAtOpen(d) == ""

InitializeDocument(d) ==
  /\ ~opened[d]
  /\ opened' = [opened EXCEPT ![d] = TRUE]
  /\ lastContent' = MapSet(lastContent, d, persisted[d].content)
  /\ lastTitle' = MapSet(lastTitle, d, TitleAtOpen(d))
  /\ pendingSaves' = MapSet(pendingSaves, d, FALSE)
  /\ states' = SetState(states, d,
                 [status |-> "idle", isDirty |-> FALSE, lastSaved |-> "date"])
  /\ lastCall' = Watch("calls", lastCall,
         [lastCall EXCEPT ![d] =
                      [op |-> "initializeDocument", effect |-> "none",
                       dirty |-> FALSE, inFlight |-> CountOf(inflight, d) > 0]])
  /\ lastSched' = Watch("calls", lastSched,
         [lastSched EXCEPT ![d] = {}])
  /\ carried' = Watch("calls", carried,
         [carried EXCEPT ![d] = FALSE])
  /\ sinceExplicit' = Watch("retry", sinceExplicit,
         [sinceExplicit EXCEPT ![d] = NoAuto])
  /\ exhausted' = Watch("retry", exhausted, [exhausted EXCEPT ![d] = FALSE])
  /\ UNCHANGED << timers, retryAttempts, armed, retryTimers, idleTimers,
                  inflight, persisted, burst, forceResult >>

(***************************************************************************)
(* scheduleAutosave(documentId, data)                                      *)
(***************************************************************************)
ArmDebounce(tbl, d, data) ==
  MapSet(tbl, NewHandle(tbl, d),
         [doc |-> d, data |-> data, delay |-> AUTOSAVE_DELAY])

\* scheduleAutosave without its "clear existing timer" step
KeepExisting(d) == armed

\* the timer table after the "clear existing timer" step
ClearExisting(d) ==
  IF d \in DOMAIN timers THEN ClearTimeout(armed, timers[d]) ELSE armed

ScheduleAutosave(d, data) ==
  LET dirty == IsDirty(lastContent, lastTitle, d, data)
      skip == MapGet(pendingSaves, d, FALSE)
      cleared == ClearExisting(d)
  IN
  /\ opened[d]
  /\ lastSched' = Watch("calls", lastSched,
         [lastSched EXCEPT ![d] = {data}])
  /\ carried' = Watch("calls", carried,
         [carried EXCEPT ![d] = FALSE])
  /\ IF skip
       THEN /\ lastCall' = Watch("calls", lastCall,
                   [lastCall EXCEPT ![d] =
                    [op |-> "scheduleAutosave", effect |-> "skipped",
                     dirty |-> dirty, inFlight |-> CountOf(inflight, d) > 0]])
            /\ UNCHANGED << states, armed, timers, burst, sinceExplicit >>
       ELSE IF ~dirty
       THEN /\ states' = SetState(states, d,
                           [isDirty |-> FALSE, status |-> "idle"])
            /\ lastCall' = Watch("calls", lastCall,
                   [lastCall EXCEPT ![d] =
                    [op |-> "scheduleAutosave", effect |-> "clean",
                     dirty |-> FALSE, inFlight |-> CountOf(inflight, d) > 0]])
            /\ sinceExplicit' = Watch("retry", sinceExplicit,
                   [sinceExplicit EXCEPT ![d] = NoAuto])
            /\ UNCHANGED << armed, timers, burst >>
       ELSE /\ FreeHandles(cleared, d) # {}
            /\ states' = SetState(states, d,
                           [isDirty |-> TRUE, status |-> "pending"])
            /\ armed' = ArmDebounce(cleared, d, data)
            /\ timers' = MapSet(timers, d, NewHandle(cleared, d))
            /\ lastCall' = Watch("calls", lastCall,
                   [lastCall EXCEPT ![d] =
                    [op |-> "scheduleAutosave", effect |-> "armed",
                     dirty |-> TRUE, inFlight |-> CountOf(inflight, d) > 0]])
            /\ sinceExplicit' = Watch("retry", sinceExplicit,
                   [sinceExplicit EXCEPT ![d] = NoAuto])
            /\ burst' = Watch("debounce", burst,
                   [burst EXCEPT ![d] =
                    IF TimersOf(d) = {}
                      THEN [n |-> 1, first |-> {data}, last |-> {data},
                            saves |-> << >>]
                      ELSE [@ EXCEPT !.n = Min(@ + 1, MaxLog),
                                     !.last = {data}]])
  /\ UNCHANGED << retryAttempts, lastContent, lastTitle, pendingSaves,
                  retryTimers, idleTimers, inflight, persisted, opened,
                  forceResult, exhausted >>

(***************************************************************************)
(* Timers firing                                                           *)
(***************************************************************************)
\* the debounce callback: performAutosave(documentId, data)
DebounceFire(h) ==
  /\ h \in DOMAIN armed
  /\ Chains(armed[h].doc) < MaxChains
  /\ armed' = MapDelete(armed, h)
  /\ BeginSave(states, armed[h].doc, armed[h].data, FALSE)
  /\ burst' = Watch("debounce", burst,
         [burst EXCEPT ![armed[h].doc].saves = Log(@, armed[h].data)])
  /\ TimerSaveHistory(armed[h].doc, armed[h].data)
  /\ UNCHANGED << timers, retryAttempts, lastContent, lastTitle, retryTimers,
                  idleTimers, persisted, opened, lastCall, lastSched,
                  forceResult, exhausted >>

\* the retry callback: performAutosave(documentId, data)
RetryFire(t) ==
  /\ t \in BagToSet(retryTimers)
  /\ retryTimers' = retryTimers (-) One(t)
  /\ BeginSave(states, t.doc, t.data, FALSE)
  /\ TimerSaveHistory(t.doc, t.data)
  /\ UNCHANGED << timers, retryAttempts, lastContent, lastTitle, armed,
                  idleTimers, persisted, opened, lastCall, lastSched, burst,
                  forceResult, exhausted >>

\* the display-window callback armed by a successful save
IdleFire(d) ==
  /\ idleTimers[d] > 0
  /\ idleTimers' = [idleTimers EXCEPT ![d] = @ - 1]
  /\ states' = IF GetState(states, d).status = "saved"
                 THEN SetState(states, d, [status |-> "idle"])
                 ELSE states
  /\ UNCHANGED << timers, retryAttempts, lastContent, lastTitle, pendingSaves,
                  armed, retryTimers, inflight, persisted, opened,
                  historyVars >>

(***************************************************************************)
(* forceSave, cancelAutosave, cleanup                                      *)
(***************************************************************************)
ForceSave(d, data) ==
  /\ opened[d]
  /\ Chains(d) < MaxChains
  /\ timers' = CancelTimersMap(d)
  /\ armed' = CancelArmed(d)
  /\ BeginSave(SetState(CancelStates(d), d, [status |-> "saving"]),
               d, data, TRUE)
  /\ lastCall' = Watch("calls", lastCall,
         [lastCall EXCEPT ![d] =
          [op |-> "forceSave", effect |-> "saving",
           dirty |-> IsDirty(lastContent, lastTitle, d, data),
           inFlight |-> CountOf(inflight, d) > 0]])
  /\ lastSched' = Watch("calls", lastSched,
         [lastSched EXCEPT ![d] = {}])
  /\ burst' = Watch("debounce", burst,
         [burst EXCEPT ![d] = NoBurst])
  /\ carried' = Watch("calls", carried,
         [carried EXCEPT ![d] = FALSE])
  /\ sinceExplicit' = Watch("retry", sinceExplicit,
         [sinceExplicit EXCEPT ![d] = NoAuto])
  /\ UNCHANGED << retryAttempts, lastContent, lastTitle, retryTimers,
                  idleTimers, persisted, opened, forceResult, exhausted >>

CancelAutosave(d) ==
  /\ opened[d]
  /\ timers' = CancelTimersMap(d)
  /\ armed' = CancelArmed(d)
  /\ states' = CancelStates(d)
  /\ lastCall' = Watch("calls", lastCall,
         [lastCall EXCEPT ![d] =
          [op |-> "cancelAutosave",
           effect |-> IF GetState(states, d).status = "pending"
                        THEN "idle" ELSE "none",
           dirty |-> FALSE, inFlight |-> CountOf(inflight, d) > 0]])
  /\ lastSched' = Watch("calls", lastSched,
         [lastSched EXCEPT ![d] = {}])
  /\ burst' = Watch("debounce", burst,
         [burst EXCEPT ![d] = NoBurst])
  /\ UNCHANGED << retryAttempts, lastContent, lastTitle, pendingSaves,
                  retryTimers, idleTimers, inflight, persisted, opened,
                  carried, sinceExplicit, forceResult, exhausted >>

\* useAutosave unmounts: cleanup(documentId)
Cleanup(d) ==
  /\ opened[d]
  /\ opened' = [opened EXCEPT ![d] = FALSE]
  /\ timers' = CancelTimersMap(d)
  /\ armed' = CancelArmed(d)
  /\ states' = MapDelete(CancelStates(d), d)
  /\ lastContent' = MapDelete(lastContent, d)
  /\ lastTitle' = MapDelete(lastTitle, d)
  /\ retryAttempts' = MapDelete(retryAttempts, d)
  /\ pendingSaves' = MapDelete(pendingSaves, d)
  /\ lastCall' = Watch("calls", lastCall,
         [lastCall EXCEPT ![d] =
          [op |-> "cleanup", effect |-> "none", dirty |-> FALSE,
           inFlight |-> CountOf(inflight, d) > 0]])
  /\ lastSched' = Watch("calls", lastSched,
         [lastSched EXCEPT ![d] = {}])
  /\ burst' = Watch("debounce", burst,
         [burst EXCEPT ![d] = NoBurst])
  /\ sinceExplicit' = Watch("retry", sinceExplicit,
         [sinceExplicit EXCEPT ![d] = NoAuto])
  /\ exhausted' = Watch("retry", exhausted, [exhausted EXCEPT ![d] = FALSE])
  /\ UNCHANGED << retryTimers, idleTimers, inflight, persisted, carried,
                  forceResult >>

(***************************************************************************)
(* performAutosave after its await: the gateway's answer arrives           *)
(***************************************************************************)
ResolveForce(c, saved) ==
  forceResult' = Watch("force", forceResult,
      IF c.force
        THEN [forceResult EXCEPT ![c.doc] =
                [resolved |-> TRUE, returned |-> ForceSaveReturns(saved),
                 saved |-> saved]]
        ELSE forceResult)

\* result.success && result.data
SaveSucceeds(c) ==
  /\ c \in BagToSet(inflight)
  /\ inflight' = inflight (-) One(c)
  /\ persisted' = [persisted EXCEPT ![c.doc] = Merge(@, c.data)]
  /\ lastContent' = IF Has(c.data, "content")
                      THEN MapSet(lastContent, c.doc, c.data.content)
                      ELSE lastContent
  /\ lastTitle' = IF Has(c.data, "title")
                    THEN MapSet(lastTitle, c.doc, c.data.title)
                    ELSE lastTitle
  /\ retryAttempts' = MapDelete(retryAttempts, c.doc)
  /\ states' = SetState(states, c.doc,
                 [status |-> "saved", lastSaved |-> "date",
                  isDirty |-> FALSE, error |-> Undefined])
  /\ idleTimers' = [idleTimers EXCEPT ![c.doc] = Min(@ + 1, MaxIdleTimers)]
  /\ pendingSaves' = FinallyPending(pendingSaves, retryAttempts', c.doc)
  /\ ResolveForce(c, TRUE)
  /\ exhausted' = Watch("retry", exhausted,
         [exhausted EXCEPT ![c.doc] = FALSE])
  /\ UNCHANGED << timers, armed, retryTimers, opened, lastCall, lastSched,
                  burst, carried, sinceExplicit >>

\* the catch block: the gateway reported a failure
SaveFails(c) ==
  LET d == c.doc
      currentAttempts == MapGet(retryAttempts, d, 0)
  IN
  /\ c \in BagToSet(inflight)
  /\ inflight' = inflight (-) One(c)
  /\ IF currentAttempts < MAX_RETRY_ATTEMPTS
       THEN /\ retryAttempts' = MapSet(retryAttempts, d, currentAttempts + 1)
            /\ retryTimers' = retryTimers (+)
                 One([doc |-> d, data |-> c.data,
                      delay |-> RetryDelay(currentAttempts)])
            /\ states' = SetState(states, d,
                 [status |-> "pending",
                  error |-> RetryMessage(currentAttempts + 1)])
            /\ pendingSaves' = FinallyPending(pendingSaves, retryAttempts', d)
            /\ sinceExplicit' = Watch("retry", sinceExplicit,
                   [sinceExplicit EXCEPT
                   ![d].waits = LogAlong(@, RetryDelay(currentAttempts),
                                       BackoffWaits)])
            /\ UNCHANGED exhausted
       ELSE /\ states' = SetState(states, d,
                 [status |-> "error", error |-> SaveErrorMessage,
                  isDirty |-> TRUE])
            /\ retryAttempts' = MapDelete(retryAttempts, d)
            /\ pendingSaves' =
                 FinallyPending(MapSet(pendingSaves, d, FALSE),
                                retryAttempts', d)
            /\ sinceExplicit' = Watch("retry", sinceExplicit,
                   [sinceExplicit EXCEPT
                   ![d].errors = Min(@ + 1, 2)])
            /\ exhausted' = Watch("retry", exhausted,
                   [exhausted EXCEPT ![d] = opened[d]])
            /\ UNCHANGED retryTimers
  /\ ResolveForce(c, FALSE)
  /\ UNCHANGED << timers, lastContent, lastTitle, armed, idleTimers,
                  persisted, opened, lastCall, lastSched, burst, carried >>

(***************************************************************************)
(* Grammar check service (readabilityScore.ts, from "GrammarCheck" on)     *)
(***************************************************************************)
\* sentences submitted to checkGrammar
Plain == << "P", "l", "a", "n", " ", "b", " ", "w", "o", "r", "k", "s", "." >>

\* Plain in another letter case, with surrounding blanks
Shout ==
  << " ", "P", "L", "A", "N", " ", "B", " ", "W", "O", "R", "K", "S", ".",
     " " >>

\* another sentence, with the hash of Plain
Twin == << "P", "l", "a", "n", " ", "a", "?", "w", "o", "r", "k", "s", "." >>

Other == << "C", "a", "t", "s", " ", "n", "a", "p", " ", "n", "o", "w", "." >>

Blank == << " ", " " >>

Sentences == {Plain, Shout, Twin, Other, Blank}

\* estimatedCost values the oracle reports (0: none reported)
Costs == {0, 50000}

\* clock advances
Jumps == {THROTTLE_INTERVAL, COST_WINDOW_MS, CACHE_RETENTION_MS}

\* Date.now() when the page loads
StartTime == 1000000

\* the four result fields the cache keeps
ResultFields == {"suggestions", "score", "improved_score",
                 "flesch_kincaid_grade"}

Restrict(r, fields) == [f \in DOMAIN r \cap fields |-> r[f]]

\* the body of a 200 answer of /api/grammar-check for a sentence
OracleResult(sent, cost) ==
  [suggestions |-> << [type |-> "grammar", original |-> sent,
                       suggestion |-> ToLowerCase(sent),
                       reason |-> "reason"] >>,
   score |-> 70, improved_score |-> 85, flesch_kincaid_grade |-> 5,
   metadata |-> [estimatedCost |-> cost]]

\* a 200 answer whose JSON body is an object without suggestions
ShapelessResult(cost) == [metadata |-> [estimatedCost |-> cost]]

FreshCostData(t) == [totalCost |-> 0, resetTime |-> t + COST_WINDOW_MS]

\* getCostTrackingData
GetCostTrackingData(store, t) ==
  IF store = {} THEN FreshCostData(t)
  ELSE LET data == CHOOSE x \in store : TRUE
       IN  IF t > data.resetTime THEN FreshCostData(t) ELSE data

\* updateCostTrackingData storing the cost of the call instead of the sum
OverwriteCostTrackingData(store, cost, t) ==
  { [totalCost |-> cost, resetTime |-> GetCostTrackingData(store, t).resetTime] }

\* updateCostTrackingData: the item written to localStorage
UpdateCostTrackingData(store, cost, t) ==
  LET currentData == GetCostTrackingData(store, t)
  IN  { [totalCost |-> currentData.totalCost + cost,
         resetTime |-> currentData.resetTime] }

\* the cap compared with > instead of >=
CostLimitPassed(store, t) ==
  GetCostTrackingData(store, t).totalCost > MAX_COST_PER_HOUR

IsCostLimitExceeded(store, t) ==
  GetCostTrackingData(store, t).totalCost >= MAX_COST_PER_HOUR

\* the throttle left out
NeverThrottled(last, t) == FALSE

IsThrottled(last, t) == t - last < THROTTLE_INTERVAL

\* hashSentence and trim of the sentences of the model, computed once
HashTable == [sentence \in Sentences |-> HashSentence(sentence)]

TrimTable == [sentence \in Sentences |-> Trim(sentence)]

NormTable == [sentence \in Sentences |-> ToLowerCase(Trim(sentence))]

\* the sentence up to letter case and surrounding white space
Norm(sentence) ==
  IF sentence \in Sentences THEN NormTable[sentence]
  ELSE ToLowerCase(Trim(sentence))

Hash(sentence) ==
  IF sentence \in Sentences THEN HashTable[sentence]
  ELSE HashSentence(sentence)

Trimmed(sentence) ==
  IF sentence \in Sentences THEN TrimTable[sentence] ELSE Trim(sentence)

\* getCachedResult: the result, if any
GetCachedResult(cache, sentence, t) ==
  LET hash == Hash(sentence)
  IN  IF hash \in DOMAIN cache
         /\ cache[hash].timestamp > t - CACHE_RETENTION_MS
        THEN { Restrict(cache[hash], ResultFields) }
        ELSE {}

\* the entries kept when the cache has outgrown MAX_CACHE_SIZE, all of them
\* kept instead
KeepAll(cache) == DOMAIN cache

\* the entries kept when the cache has outgrown MAX_CACHE_SIZE: the most
\* recent ones (entries of equal age are kept by key order).  `sure' are the
\* entries that fit together with all that are as recent as they are, `tied'
\* the entries of the age at which the cut falls.
MostRecent(cache) ==
  IF Cardinality(DOMAIN cache) <= MAX_CACHE_SIZE THEN DOMAIN cache
  ELSE LET asRecent(k) ==
             {o \in DOMAIN cache : cache[o].timestamp >= cache[k].timestamp}
           newer(k) ==
             {o \in DOMAIN cache : cache[o].timestamp > cache[k].timestamp}
           sure == {k \in DOMAIN cache :
                      Cardinality(asRecent(k)) <= MAX_CACHE_SIZE}
           tied == {k \in DOMAIN cache \ sure :
                      Cardinality(newer(k)) < MAX_CACHE_SIZE}
       IN  sure \cup
           (CHOOSE keep \in SUBSET tied :
              Cardinality(keep) = MAX_CACHE_SIZE - Cardinality(sure))

\* cacheResult: JSON.stringify drops the fields that are undefined
CacheResult(cache, sentence, result, t) ==
  LET entry == Merge([timestamp |-> t], Restrict(result, ResultFields))
      added == MapSet(cache, Hash(sentence), entry)
  IN  [k \in MostRecent(added) |-> added[k]]

\* checkGrammar up to its await: how the call goes on
CheckGrammarPath(sentence) ==
  IF Trimmed(sentence) = << >> THEN "noSentence"
  ELSE IF GetCachedResult(cacheStore, sentence, now) # {} THEN "cached"
  ELSE IF IsCostLimitExceeded(costStore, now) THEN "costLimit"
  ELSE IF IsThrottled(lastRequestTime, now) THEN "throttled"
  ELSE "request"

NoCheck == [outcome |-> "none", result |-> {}]

\* how a checkGrammar call ended, with the result it resolved to, if any
Settled(outcome, result) == [outcome |-> outcome, result |-> result]

GrammarInit ==
  /\ now = StartTime
  /\ ticks = 0
  /\ lastRequestTime = 0
  /\ totalCost = 0
  /\ requestCount = 0
  /\ costStore = {}
  /\ cacheStore = EmptyMap
  /\ requests = {}
  /\ lastCheck = NoCheck
  /\ started = {}
  /\ reported = << >>
  /\ answered = EmptyMap
  /\ asked = {}

\* time passes
Tick(d) ==
  /\ ticks < MaxTicks
  /\ ticks' = ticks + 1
  /\ now' = now + d
  /\ UNCHANGED << lastRequestTime, totalCost, requestCount, costStore,
                  cacheStore, requests, lastCheck, started, reported,
                  answered, asked >>

\* checkGrammar(sentence) called; without a request it settles at once
CheckGrammar(sentence) ==
  LET path == CheckGrammarPath(sentence)
  IN
  /\ IF path = "request"
       THEN /\ requestCount < MaxRequests
            /\ lastRequestTime' = now
            /\ requestCount' = requestCount + 1
            /\ requests' = requests \cup
                 { [id |-> requestCount + 1, sentence |-> sentence,
                    startTime |-> now] }
            /\ started' = {now}
            /\ asked' = asked \cup {Norm(sentence)}
            /\ UNCHANGED lastCheck
       ELSE /\ lastCheck' =
                 Settled(path, GetCachedResult(cacheStore, sentence, now))
            /\ UNCHANGED << lastRequestTime, requestCount, requests,
                            started, asked >>
  /\ UNCHANGED << now, ticks, totalCost, costStore, cacheStore, reported,
                  answered >>

\* the ledger after a parsed 200 answer: if (result.metadata?.estimatedCost)
TrackCost(result) ==
  IF result.metadata.estimatedCost # 0
    THEN UpdateCostTrackingData(costStore, result.metadata.estimatedCost, now)
    ELSE costStore

\* a 200 answer with a parsed JSON body arrives
OracleAnswers(r, result) ==
  /\ r \in requests
  /\ requests' = requests \ {r}
  /\ costStore' = TrackCost(result)
  /\ totalCost' = IF result.metadata.estimatedCost # 0
                    THEN (CHOOSE x \in costStore' : TRUE).totalCost
                    ELSE totalCost
  /\ cacheStore' = CacheResult(cacheStore, r.sentence, result, now)
  /\ reported' = IF result.metadata.estimatedCost # 0
                   THEN Append(reported,
                          [at |-> now, cost |-> result.metadata.estimatedCost])
                   ELSE reported
  /\ lastCheck' = IF "suggestions" \in DOMAIN result
                    THEN Settled("result", {Restrict(result, ResultFields)})
                    ELSE Settled("error", {})
  /\ answered' = IF "suggestions" \in DOMAIN result
                   THEN MapSet(answered, Norm(r.sentence),
                          [at |-> now,
                           result |-> Restrict(result, ResultFields)])
                   ELSE answered
  /\ UNCHANGED << now, ticks, lastRequestTime, requestCount, started,
                  asked >>

\* the fetch rejects, the status is not 2xx, or the body is not JSON
OracleFails(r) ==
  /\ r \in requests
  /\ requests' = requests \ {r}
  /\ lastCheck' = Settled("error", {})
  /\ UNCHANGED << now, ticks, lastRequestTime, totalCost, requestCount,
                  costStore, cacheStore, started, reported, answered,
                  asked >>

GrammarNext ==
  \/ \E d \in Jumps : Tick(d) /\ UNCHANGED besideGrammar
  \/ \E sentence \in Sentences : CheckGrammar(sentence) /\ UNCHANGED besideGrammar
  \/ \E r \in requests, cost \in Costs :
       OracleAnswers(r, OracleResult(Trimmed(r.sentence), cost))
         /\ UNCHANGED besideGrammar
  \/ \E r \in requests, cost \in Costs :
       OracleAnswers(r, ShapelessResult(cost)) /\ UNCHANGED besideGrammar
  \/ \E r \in requests : OracleFails(r) /\ UNCHANGED besideGrammar

(***************************************************************************)
(* Grammar check hooks: useGrammarCheckOnIdle, useGrammarCheck and the     *)
(* DebouncedGrammarChecker, on top of the grammar check service            *)
(***************************************************************************)
NoText == << >>

\* the text after a blank was typed behind the sentence
Spaced == Other \o << " " >>

Short == << "H", "i", "." >>

Texts == {NoText, Other, Spaced, Plain, Short}

\* clock steps between the events of the hooks
Steps == {THROTTLE_INTERVAL \div 2, DEBOUNCE_INTERVAL}

SentenceEnders == {".", "!", "?", "\n"}

\* String.prototype.substring(from, to), offsets counted from 0
Substring(str, from, to) == SubSeq(str, from + 1, to)

Max(a, b) == IF a >= b THEN a ELSE b

\* the spans extractCurrentSentence collects: one per terminator, then the
\* trailing fragment, each kept when its trimmed text is not empty
SentenceSpans(str) ==
  LET ends == {i \in 1..Len(str) : str[i] \in SentenceEnders}
      lastEndBefore(i) ==
        LET earlier == {j \in ends : j < i}
        IN  IF earlier = {} THEN 0
            ELSE CHOOSE j \in earlier : \A k \in earlier : k <= j
      closed == { [start |-> lastEndBefore(i), end |-> i,
                   text |-> Trim(Substring(str, lastEndBefore(i), i))] :
                  i \in ends }
      lastEnd == lastEndBefore(Len(str) + 1)
      final == IF lastEnd < Len(str)
                 THEN { [start |-> lastEnd, end |-> Len(str),
                         text |-> Trim(Substring(str, lastEnd, Len(str)))] }
                 ELSE {}
  IN  {span \in closed \cup final : span.text # << >>}

ExtractCurrentSentence(str, cursorPosition) ==
  IF str = << >> \/ cursorPosition < 0 THEN << >>
  ELSE
    LET holding == {span \in SentenceSpans(str) :
                      cursorPosition >= span.start /\ cursorPosition <= span.end}
    IN  IF holding # {}
          THEN (CHOOSE span \in holding :
                  \A other \in holding : span.start <= other.start).text
          ELSE Trim(Substring(str, Max(0, cursorPosition - 100),
                              Min(Len(str), cursorPosition + 100)))

\* getCursorPosition: the user types at the end of the text
CursorOf(str) == Len(str)

SentenceTable ==
  [str \in Texts |-> ExtractCurrentSentence(str, CursorOf(str))]

SentenceOf(str) == SentenceTable[str]

CheckerInit ==
  /\ text = NoText
  /\ timeoutRef = {}
  /\ lastTextRef = NoText
  /\ timeoutId = {}
  /\ isChecking = FALSE
  /\ lastCheckedText = NoText
  /\ checkerReq = {}
  /\ ui = [suggestions |-> << >>, isChecking |-> FALSE, error |-> {},
           score |-> 0, improvedScore |-> 0]
  /\ edits = 0
  /\ rechecks = 0
  /\ lastEditAt = {}
  /\ editBurst = [n |-> 0, clean |-> TRUE]
  /\ checkLog = << >>
  /\ handed = {}
  /\ lastSchedule = [n |-> 0, sentence |-> NoText, skipped |-> FALSE]
  /\ outcomeOf = EmptyMap

\* DebouncedGrammarChecker.scheduleCheck
ScheduleCheck(sentence) ==
  /\ timeoutId' = IF sentence = lastCheckedText THEN timeoutId
                  ELSE { [due |-> now + DEBOUNCE_INTERVAL,
                          sentence |-> sentence] }
  /\ lastSchedule' = [n |-> lastSchedule.n + 1, sentence |-> sentence,
                      skipped |-> sentence = lastCheckedText]

\* checkGrammar of the hook without the test of the sentence length
HookCheckGrammarAnyLength(str) ==
  IF Trim(str) = << >>
    THEN /\ ui' = [ui EXCEPT !.suggestions = << >>, !.score = 0,
                              !.improvedScore = 0]
         /\ UNCHANGED << timeoutId, lastSchedule >>
  ELSE /\ ui' = [ui EXCEPT !.isChecking = TRUE, !.error = {}]
       /\ ScheduleCheck(SentenceOf(str))

\* useGrammarCheck.checkGrammar(text, cursorPosition)
HookCheckGrammar(str) ==
  IF Trim(str) = << >>
    THEN /\ ui' = [ui EXCEPT !.suggestions = << >>, !.score = 0,
                              !.improvedScore = 0]
         /\ UNCHANGED << timeoutId, lastSchedule >>
  ELSE IF Len(Trim(SentenceOf(str))) < 10
    THEN UNCHANGED << ui, timeoutId, lastSchedule >>
  ELSE /\ ui' = [ui EXCEPT !.isChecking = TRUE, !.error = {}]
       /\ ScheduleCheck(SentenceOf(str))

\* an edit of the text: the host calls scheduleGrammarCheck of the idle hook
Edit(str) ==
  /\ edits < MaxEdits
  /\ str # text
  /\ text' = str
  /\ timeoutRef' = {now + DEBOUNCE_INTERVAL}
  /\ edits' = edits + 1
  /\ lastEditAt' = {now}
  /\ editBurst' =
       IF \A at \in lastEditAt : now - at >= DEBOUNCE_INTERVAL
         THEN [n |-> editBurst.n + 1,
               clean |-> timeoutRef = {} /\ timeoutId = {}]
         ELSE editBurst
  /\ UNCHANGED << lastTextRef, timeoutId, isChecking, lastCheckedText,
                  checkerReq, ui, rechecks, checkLog, handed, lastSchedule,
                  outcomeOf >>
  /\ UNCHANGED grammarVars

\* the timer of useGrammarCheckOnIdle fires
IdleTimerFires ==
  /\ \E due \in timeoutRef : now >= due
  /\ timeoutRef' = {}
  /\ IF text # lastTextRef
       THEN /\ lastTextRef' = text
            /\ handed' = handed \cup {[text |-> text, burst |-> editBurst.n]}
            /\ HookCheckGrammar(text)
       ELSE UNCHANGED << lastTextRef, handed, ui, timeoutId, lastSchedule >>
  /\ UNCHANGED << text, isChecking, lastCheckedText, checkerReq, edits,
                  rechecks, lastEditAt, editBurst, checkLog, outcomeOf >>
  /\ UNCHANGED grammarVars

\* the host's recheck button: checkGrammar of the hook with the current text
Recheck ==
  /\ rechecks < MaxRechecks
  /\ Trim(text) # << >>
  /\ rechecks' = rechecks + 1
  /\ HookCheckGrammar(text)
  /\ UNCHANGED << text, timeoutRef, lastTextRef, isChecking, lastCheckedText,
                  checkerReq, edits, lastEditAt, editBurst, checkLog, handed,
                  outcomeOf >>
  /\ UNCHANGED grammarVars

\* a check resolved with a result the hook can show
Succeeded(check) ==
  /\ check.outcome \in {"cached", "result"}
  /\ \E result \in check.result : "suggestions" \in DOMAIN result

\* handleResult / handleError of the hook, and the finally of the checker
CheckSettles(sentence, check) ==
  /\ ui' = IF Succeeded(check)
             THEN LET result == CHOOSE r \in check.result : TRUE
                  IN  [suggestions |-> result.suggestions,
                       isChecking |-> FALSE, error |-> {},
                       score |-> result.score,
                       improvedScore |-> result.improved_score]
             ELSE [ui EXCEPT !.isChecking = FALSE, !.error = {check.outcome}]
  /\ outcomeOf' = MapSet(outcomeOf, sentence,
                         IF Succeeded(check) THEN "ok" ELSE "failed")
  /\ isChecking' = FALSE
  /\ checkerReq' = {}

\* a checker that takes no notice of a check in flight
NeverChecking == FALSE

\* if (this.isChecking) in the callback of the timer
AlreadyChecking == isChecking

\* the timer of the DebouncedGrammarChecker fires
CheckerTimerFires ==
  \E timer \in timeoutId :
    /\ now >= timer.due
    /\ timeoutId' = {}
    /\ IF AlreadyChecking
         THEN UNCHANGED << isChecking, lastCheckedText, checkerReq, ui,
                           checkLog, outcomeOf, grammarVars >>
         ELSE /\ lastCheckedText' = timer.sentence
              /\ checkLog' = Append(checkLog, [sentence |-> timer.sentence,
                                              burst |-> editBurst.n])
              /\ CheckGrammar(timer.sentence)
              /\ IF CheckGrammarPath(timer.sentence) = "request"
                   THEN /\ isChecking' = TRUE
                        /\ checkerReq' = {requestCount + 1}
                        /\ outcomeOf' =
                             MapSet(outcomeOf, timer.sentence, "running")
                        /\ UNCHANGED ui
                   ELSE CheckSettles(timer.sentence, lastCheck')
    /\ UNCHANGED << text, timeoutRef, lastTextRef, edits, rechecks,
                    lastEditAt, editBurst, handed, lastSchedule >>

\* the request the checker awaits is answered
CheckerAnswered(r, result) ==
  /\ r.id \in checkerReq
  /\ OracleAnswers(r, result)
  /\ CheckSettles(r.sentence, lastCheck')
  /\ UNCHANGED << text, timeoutRef, lastTextRef, timeoutId, lastCheckedText,
                  edits, rechecks, lastEditAt, editBurst, checkLog, handed,
                  lastSchedule >>

\* the request the checker awaits fails
CheckerFailed(r) ==
  /\ r.id \in checkerReq
  /\ OracleFails(r)
  /\ CheckSettles(r.sentence, lastCheck')
  /\ UNCHANGED << text, timeoutRef, lastTextRef, timeoutId, lastCheckedText,
                  edits, rechecks, lastEditAt, editBurst, checkLog, handed,
                  lastSchedule >>

\* time passes, up to the next timer that is due
Elapse(d) ==
  /\ ticks < MaxSteps
  /\ \A due \in timeoutRef : now + d <= due
  /\ \A timer \in timeoutId : now + d <= timer.due
  /\ now' = now + d
  /\ ticks' = ticks + 1
  /\ UNCHANGED << lastRequestTime, totalCost, requestCount, costStore,
                  cacheStore, requests, lastCheck, started, reported,
                  answered, asked >>
  /\ UNCHANGED checkerVars

CheckerNext ==
  \/ \E str \in Texts : Edit(str) /\ UNCHANGED besideChecker
  \/ IdleTimerFires /\ UNCHANGED besideChecker
  \/ Recheck /\ UNCHANGED besideChecker
  \/ CheckerTimerFires /\ UNCHANGED besideChecker
  \/ \E r \in requests, cost \in Costs :
       CheckerAnswered(r, OracleResult(Trimmed(r.sentence), cost))
         /\ UNCHANGED besideChecker
  \/ \E r \in requests, cost \in Costs :
       CheckerAnswered(r, ShapelessResult(cost)) /\ UNCHANGED besideChecker
  \/ \E r \in requests : CheckerFailed(r) /\ UNCHANGED besideChecker
  \/ \E d \in Steps : Elapse(d) /\ UNCHANGED besideChecker

(***************************************************************************)
(* Suggestion lists of useGrammarCheck and useSpellCheck                   *)
(***************************************************************************)
\* entries of a list: grammar suggestions or spelling errors
Entries == {"e1", "e2"}

RECURSIVE ListsUpTo(_)
ListsUpTo(n) ==
  IF n = 0 THEN { << >> }
  ELSE ListsUpTo(n - 1) \cup
       { Append(list, e) : list \in {l \in ListsUpTo(n - 1) : Len(l) = n - 1},
                           e \in Entries }

Lists == ListsUpTo(MaxLen)

\* indexes a caller passes, valid or not
Indexes == (0 - 1)..MaxLen

\* replacement texts
Fixes == {"fix", "other"}

SpellInit ==
  /\ errors = << >>
  /\ spellRuns = 0
  /\ spellPending = {}
  /\ returned = {}

\* current.filter((_, index) => index !== errorIndex), from position k on
RECURSIVE FilterFrom(_, _, _)
FilterFrom(list, k, index) ==
  IF k > Len(list) THEN << >>
  ELSE (IF k - 1 # index THEN << list[k] >> ELSE << >>)
         \o FilterFrom(list, k + 1, index)

\* a filter on the value of the entry instead of its index
RemoveEqual(list, index) ==
  SelectSeq(list, LAMBDA e : e # list[index + 1])

RemoveAt(list, index) ==
  FilterFrom(list, 1, index)

\* a hook without the test of the index
AnyIndex(list, index) == TRUE

ValidIndex(list, index) == ~(index < 0 \/ index >= Len(list))

\* handleResult of useGrammarCheck for a result with these suggestions
HandleResult(list) ==
  /\ ui' = [suggestions |-> list, isChecking |-> FALSE, error |-> {},
            score |-> 70, improvedScore |-> 85]
  /\ UNCHANGED << text, timeoutRef, lastTextRef, timeoutId, isChecking,
                  lastCheckedText, checkerReq, edits, rechecks, lastEditAt,
                  editBurst, checkLog, handed, lastSchedule, outcomeOf >>
  /\ UNCHANGED << spellVars, besideLists >>

\* the suggestions after applySuggestion or dismissSuggestion of the hook
DropSuggestion(index) ==
  /\ ui' = IF ValidIndex(ui.suggestions, index)
             THEN [ui EXCEPT !.suggestions = RemoveAt(ui.suggestions, index)]
             ELSE ui
  /\ UNCHANGED << text, timeoutRef, lastTextRef, timeoutId, isChecking,
                  lastCheckedText, checkerReq, edits, rechecks, lastEditAt,
                  editBurst, checkLog, handed, lastSchedule, outcomeOf >>
  /\ UNCHANGED << spellVars, besideLists >>

\* useGrammarCheck.applySuggestion(suggestionIndex, newText)
ApplySuggestion(index, newText) == DropSuggestion(index)

\* useGrammarCheck.dismissSuggestion(suggestionIndex)
DismissSuggestion(index) == DropSuggestion(index)

\* useSpellCheck.checkText up to its await of checkWords
SpellCheckStarts ==
  /\ spellRuns < MaxSpellRuns
  /\ spellRuns' = spellRuns + 1
  /\ spellPending' = spellPending \cup {spellRuns + 1}
  /\ UNCHANGED << errors, returned >>
  /\ UNCHANGED << checkerVars, besideLists >>

\* checkWords answers: setErrors(newErrors)
SpellCheckAnswers(run, found) ==
  /\ run \in spellPending
  /\ spellPending' = spellPending \ {run}
  /\ errors' = found
  /\ UNCHANGED << spellRuns, returned >>
  /\ UNCHANGED << checkerVars, besideLists >>

\* checkWords rejects: the catch of checkText only logs
SpellCheckFails(run) ==
  /\ run \in spellPending
  /\ spellPending' = spellPending \ {run}
  /\ UNCHANGED << errors, spellRuns, returned >>
  /\ UNCHANGED << checkerVars, besideLists >>

\* useSpellCheck.applySuggestion(errorIndex, suggestion)
SpellApplySuggestion(index, suggestion) ==
  /\ IF ValidIndex(errors, index)
       THEN /\ errors' = RemoveAt(errors, index)
            /\ returned' = {suggestion}
       ELSE /\ errors' = errors
            /\ returned' = {""}
  /\ UNCHANGED << spellRuns, spellPending >>
  /\ UNCHANGED << checkerVars, besideLists >>

ListsNext ==
  \/ \E list \in Lists : HandleResult(list)
  \/ \E index \in Indexes, newText \in Fixes : ApplySuggestion(index, newText)
  \/ \E index \in Indexes : DismissSuggestion(index)
  \/ SpellCheckStarts
  \/ \E run \in spellPending, found \in Lists : SpellCheckAnswers(run, found)
  \/ \E run \in spellPending : SpellCheckFails(run)
  \/ \E index \in Indexes, suggestion \in Fixes :
       SpellApplySuggestion(index, suggestion)

(***************************************************************************)
(* Grammar API route: POST /api/grammar-check                              *)
(***************************************************************************)
Clients == {"c1"}

\* advances of the clock between requests
RouteJumps == {THROTTLE_INTERVAL, RATE_WINDOW_MS}

\* a sentence of n characters
Filler(n) == [i \in 1..n |-> "a"]

Longest == Filler(MAX_SENTENCE_LENGTH)

Oversize == Filler(MAX_SENTENCE_LENGTH + 1)

\* a body that is not JSON
Garbled == [raw |-> "{"]

\* request bodies: with a sentence, without one, or not JSON
Bodies ==
  { [sentence |-> str] : str \in {Plain, Blank, Longest, Oversize} }
    \cup { [text |-> Plain], Garbled }

RouteInit ==
  /\ lastRequestTimes = EmptyMap
  /\ requestCounts = EmptyMap
  /\ handlers = {}
  /\ arrivals = 0
  /\ modelCalls = {}
  /\ tracked = {}
  /\ responses = EmptyMap

\* isThrottled(clientId): what it returns
RouteThrottled(clientId) ==
  \/ /\ clientId \in DOMAIN lastRequestTimes
     /\ now - lastRequestTimes[clientId] < THROTTLE_INTERVAL
  \/ /\ clientId \in DOMAIN requestCounts
     /\ ~(now > requestCounts[clientId].resetTime)
     /\ requestCounts[clientId].count >= MAX_REQUESTS_PER_MINUTE

\* isThrottled(clientId): the requestCounts it leaves
CountsAfterThrottleCheck(clientId) ==
  IF /\ clientId \in DOMAIN lastRequestTimes
     /\ now - lastRequestTimes[clientId] < THROTTLE_INTERVAL
    THEN requestCounts
  ELSE IF clientId \in DOMAIN requestCounts
            /\ ~(now > requestCounts[clientId].resetTime)
    THEN requestCounts
  ELSE MapSet(requestCounts, clientId,
              [count |-> 0, resetTime |-> now + RATE_WINDOW_MS])

\* !sentence || typeof sentence !== 'string' || sentence.trim().length === 0
IsInvalidSentence(body) ==
  \/ "sentence" \notin DOMAIN body
  \/ Trim(body.sentence) = << >>

\* the validation of the bodies of the model, computed once
InvalidTable == [body \in Bodies |-> IsInvalidSentence(body)]

InvalidSentence(body) ==
  IF body \in Bodies THEN InvalidTable[body] ELSE IsInvalidSentence(body)

\* the length limit with its bound one too high
TooLongByTwo(sentence) == Len(sentence) > MAX_SENTENCE_LENGTH + 1

TooLong(sentence) == Len(sentence) > MAX_SENTENCE_LENGTH

Respond(id, clientId, body, status, error) ==
  responses' = MapSet(responses, id,
                      [client |-> clientId, body |-> body, status |-> status,
                       error |-> error])

\* POST up to its first await: the throttle check
Arrive(clientId, body) ==
  /\ arrivals < MaxArrivals
  /\ arrivals' = arrivals + 1
  /\ requestCounts' = CountsAfterThrottleCheck(clientId)
  /\ IF RouteThrottled(clientId)
       THEN /\ Respond(arrivals + 1, clientId, body, 429, "Rate limited")
            /\ UNCHANGED handlers
       ELSE /\ handlers' = handlers \cup
                 { [id |-> arrivals + 1, client |-> clientId, body |-> body,
                    pc |-> "json"] }
            /\ UNCHANGED responses
  /\ UNCHANGED << lastRequestTimes, modelCalls, tracked >>
  /\ UNCHANGED grammarVars

\* request.json() resolves: validation, tracking, the call of the model
BodyParsed(h) ==
  /\ h \in handlers
  /\ h.pc = "json"
  /\ h.body # Garbled
  /\ IF InvalidSentence(h.body)
       THEN /\ Respond(h.id, h.client, h.body, 400, "Valid sentence is required")
            /\ handlers' = handlers \ {h}
            /\ UNCHANGED << lastRequestTimes, requestCounts, modelCalls,
                            tracked >>
     ELSE IF TooLong(h.body.sentence)
       THEN /\ Respond(h.id, h.client, h.body, 400, "Sentence too long")
            /\ handlers' = handlers \ {h}
            /\ UNCHANGED << lastRequestTimes, requestCounts, modelCalls,
                            tracked >>
     ELSE /\ lastRequestTimes' = MapSet(lastRequestTimes, h.client, now)
          /\ requestCounts' =
               IF h.client \in DOMAIN requestCounts
                 THEN [requestCounts EXCEPT ![h.client].count = @ + 1]
                 ELSE requestCounts
          /\ tracked' = tracked \cup {h.id}
          /\ modelCalls' = modelCalls \cup
               { [id |-> h.id, client |-> h.client, at |-> now,
                  sentence |-> h.body.sentence] }
          /\ handlers' = (handlers \ {h}) \cup {[h EXCEPT !.pc = "model"]}
          /\ UNCHANGED responses
  /\ UNCHANGED arrivals
  /\ UNCHANGED grammarVars

\* request.json() rejects: the catch answers 500
BodyUnreadable(h) ==
  /\ h \in handlers
  /\ h.pc = "json"
  /\ h.body = Garbled
  /\ Respond(h.id, h.client, h.body, 500, "Failed to analyze text")
  /\ handlers' = handlers \ {h}
  /\ UNCHANGED << lastRequestTimes, requestCounts, arrivals, modelCalls,
                  tracked >>
  /\ UNCHANGED grammarVars

\* the model answers with an analysis the handler accepts
ModelAnswers(h) ==
  /\ h \in handlers
  /\ h.pc = "model"
  /\ Respond(h.id, h.client, h.body, 200, "")
  /\ handlers' = handlers \ {h}
  /\ UNCHANGED << lastRequestTimes, requestCounts, arrivals, modelCalls,
                  tracked >>
  /\ UNCHANGED grammarVars

\* the call of the model throws, or its answer is empty or malformed
ModelFails(h) ==
  /\ h \in handlers
  /\ h.pc = "model"
  /\ Respond(h.id, h.client, h.body, 500, "Failed to analyze text")
  /\ handlers' = handlers \ {h}
  /\ UNCHANGED << lastRequestTimes, requestCounts, arrivals, modelCalls,
                  tracked >>
  /\ UNCHANGED grammarVars

RouteNext ==
  \/ \E clientId \in Clients, body \in Bodies :
       Arrive(clientId, body) /\ UNCHANGED besideRoute
  \/ \E h \in handlers : BodyParsed(h) /\ UNCHANGED besideRoute
  \/ \E h \in handlers : BodyUnreadable(h) /\ UNCHANGED besideRoute
  \/ \E h \in handlers : ModelAnswers(h) /\ UNCHANGED besideRoute
  \/ \E h \in handlers : ModelFails(h) /\ UNCHANGED besideRoute
  \/ \E d \in RouteJumps : Tick(d) /\ UNCHANGED << besideRoute, routeVars >>

(***************************************************************************)
(* Calls of extractCurrentSentence: a text, a cursor offset in it, and the *)
(* sentence the function returns for them                                  *)
(***************************************************************************)
MaxSample == 3

SampleChars == {"a", " ", ".", "\n"}

RECURSIVE SamplesUpTo(_)
SamplesUpTo(n) ==
  IF n = 0 THEN { << >> }
  ELSE SamplesUpTo(n - 1) \cup
       { Append(str, c) : str \in {t \in SamplesUpTo(n - 1) : Len(t) = n - 1},
                          c \in SampleChars }

\* texts of more than 200 characters without a terminator
Longs == { [i \in 1..n |-> IF i % 9 = 0 THEN " " ELSE "a"] : n \in {150, 250} }

Samples == SamplesUpTo(MaxSample) \cup Longs

Offsets(str) ==
  IF str \in Longs THEN {0, 1, 100, 125, Len(str)} ELSE 0..Len(str)

NotExtracting == sample = NoText /\ cursorAt = 0 /\ extracted = {}

\* extractCurrentSentence(text, cursorPosition) is called
ExtractCall ==
  /\ extracted = {}
  /\ extracted' = {ExtractCurrentSentence(sample, cursorAt)}
  /\ UNCHANGED << sample, cursorAt >>

\* the cursor moves in the text
CursorMoves(c) ==
  /\ c # cursorAt
  /\ cursorAt' = c
  /\ extracted' = {}
  /\ UNCHANGED sample

ExtractNext ==
  \/ ExtractCall /\ UNCHANGED besideExtract
  \/ \E c \in Offsets(sample) : CursorMoves(c) /\ UNCHANGED besideExtract

(***************************************************************************)
(* Spell-check session: useSpellCheck on top of the spellcheck library.    *)
(* Two builds are in the sources: the hook that batches the words through  *)
(* checkWords with the API library ("api"), and the hook that asks the     *)
(* dictionary word by word with the nspell library ("nspell").  React      *)
(* commits the state updates of one synchronous stretch together.          *)
(***************************************************************************)
Builds == {"api", "nspell"}

IsDigit(c) == c \in {"0", "1", "2", "3", "4", "5", "6", "7", "8", "9"}

\* \w
IsWordChar(c) == IsLower(c) \/ IsUpper(c) \/ IsDigit(c) \/ c = "_"

\* [\w'-]
IsTokenChar(c) == IsWordChar(c) \/ c \in {"'", "-"}

\* the character at offset i (from 0) exists and is a word character
WordAt(str, i) == i >= 0 /\ i < Len(str) /\ IsWordChar(str[i + 1])

\* \b at offset i
Boundary(str, i) == WordAt(str, i - 1) # WordAt(str, i)

\* the offsets at which a match of \b[\w'-]+\b that starts at s can end
MatchEnds(str, s) ==
  { e \in (s + 1)..Len(str) :
      /\ \A k \in s..(e - 1) : IsTokenChar(str[k + 1])
      /\ Boundary(str, e) }

\* wordRegex.exec(text) from lastIndex on: the leftmost start, the longest
\* match there
RECURSIVE TokensFrom(_, _)
TokensFrom(str, lastIndex) ==
  LET starts == { s \in lastIndex..Len(str) :
                    Boundary(str, s) /\ MatchEnds(str, s) # {} }
  IN  IF starts = {} THEN << >>
      ELSE LET s == CHOOSE x \in starts : \A y \in starts : x <= y
               e == CHOOSE x \in MatchEnds(str, s) :
                      \A y \in MatchEnds(str, s) : y <= x
           IN  << [word |-> SubSeq(str, s + 1, e), start |-> s, end |-> e] >>
                 \o TokensFrom(str, e)

\* a tokenizer whose offsets count from 1
TokenizeFromOne(str) ==
  [i \in DOMAIN TokensFrom(str, 0) |->
     [TokensFrom(str, 0)[i] EXCEPT !.start = @ + 1, !.end = @ + 1]]

TokenizeForSpellCheck(str) == TokensFrom(str, 0)

Misspelt == << "t", "e", "h", " ", "c", "a", "t" >>

Joined ==
  << "i", "t", "'", "s", " ", "-", "o", "f", "f", "-", "k", "e", "y", "-",
     " ", "'", "x", "2", "'" >>

Marks == << ".", " ", "-", " ", "'" >>

SpellTexts == {NoText, Misspelt, Joined, Marks}

\* tokenizeForSpellCheck of the texts of the model, computed once
TokenTable == [str \in SpellTexts |-> TokenizeForSpellCheck(str)]

WordsOf(str) ==
  IF str \in SpellTexts THEN TokenTable[str] ELSE TokenizeForSpellCheck(str)

\* what the oracle says of one word
Verdicts ==
  { [isCorrect |-> TRUE, suggestions |-> << >>],
    [isCorrect |-> FALSE, suggestions |-> << >>],
    [isCorrect |-> FALSE, suggestions |-> << "fix" >>] }

\* the answers of /api/spell-check to a batch of n words
Answers(n) == [1..n -> Verdicts]

\* The opposite defaults: every word reported as misspelt
AllMisspelt(n) == [i \in 1..n |-> [isCorrect |-> FALSE, suggestions |-> << >>]]

\* checkWords when the fetch fails: words.map(word => safe default)
SafeDefaults(n) == [i \in 1..n |-> [isCorrect |-> TRUE, suggestions |-> << >>]]

\* the loop of checkText over the results, from result i on
RECURSIVE ErrorsFrom(_, _, _)
ErrorsFrom(words, results, i) ==
  IF i > Len(results) THEN << >>
  ELSE (IF ~results[i].isCorrect
          THEN << [word |-> words[i].word, start |-> words[i].start,
                   end |-> words[i].end,
                   suggestions |-> results[i].suggestions] >>
          ELSE << >>)
         \o ErrorsFrom(words, results, i + 1)

NewErrors(words, results) == ErrorsFrom(words, results, 1)

(***************************************************************************)
(* The cache of the spellcheck library: a Map from the cleaned, lowercased *)
(* word to the verdict of the oracle, filled by checkWords                 *)
(***************************************************************************)
CACHE_MAX_SIZE == 1000

\* checkWords calls in one behaviour
MaxWordCalls == 2

\* word.replace(/[^\w'-]/g, '')
CleanWord(word) == SelectSeq(word, IsTokenChar)

DigitChars == << "0", "1", "2", "3", "4", "5", "6", "7", "8", "9" >>

RECURSIVE DigitsOf(_)
DigitsOf(n) ==
  IF n < 10 THEN << DigitChars[n + 1] >>
  ELSE DigitsOf(n \div 10) \o << DigitChars[(n % 10) + 1] >>

\* the i-th word checked before the behaviour begins
EarlierWord(i) == << "w" >> \o DigitsOf(i)

\* words as /api/spell-check echoes them
EchoedWords ==
  { << "T", "e", "h" >>, << "c", "a", "t", "!" >>, << "!" >>, EarlierWord(1) }

\* the verdict of the dictionary on a cleaned word
VerdictOn(word) ==
  IF ToLowerCase(CleanWord(word)) = << "t", "e", "h" >>
    THEN [isCorrect |-> FALSE, suggestions |-> << "the" >>]
    ELSE [isCorrect |-> TRUE, suggestions |-> << >>]

\* result.data of a 200 answer to the words
AnswerTo(words) ==
  [i \in DOMAIN words |->
     [word |-> words[i], isCorrect |-> VerdictOn(words[i]).isCorrect,
      suggestions |-> VerdictOn(words[i]).suggestions]]

WordBatches == { << w >> : w \in EchoedWords } \cup
               { << v, w >> : v, w \in EchoedWords }

\* the Map after `size' earlier words were checked, one after the other
EarlierCache(size) ==
  [i \in 1..size |->
     [key |-> EarlierWord(i), isCorrect |-> TRUE, suggestions |-> << >>]]

EarlierCaches ==
  { EarlierCache(size) : size \in {0, CACHE_MAX_SIZE - 1, CACHE_MAX_SIZE} }

NoWordCalls ==
  spellCheckCache = << >> /\ wordCalls = 0 /\ wordResult = {}

\* what a function of the library returned: the items of checkWords, or the
\* verdict of isWordCorrect
Returned(call, items, verdict) ==
  [call |-> call, items |-> items, verdict |-> verdict]

\* spellCheckCache.has(key)
CacheHas(cache, key) == \E i \in DOMAIN cache : cache[i].key = key

\* the newest key deleted instead of the first
DeleteLastKey(cache) == SubSeq(cache, 1, Len(cache) - 1)

\* spellCheckCache.delete(spellCheckCache.keys().next().value)
DeleteFirstKey(cache) == Tail(cache)

\* spellCheckCache.set(key, value): a key that is present keeps its place
CacheSet(cache, key, item) ==
  LET entry == [key |-> key, isCorrect |-> item.isCorrect,
                suggestions |-> item.suggestions]
  IN  IF CacheHas(cache, key)
        THEN [i \in DOMAIN cache |->
                IF cache[i].key = key THEN entry ELSE cache[i]]
        ELSE Append(cache, entry)

\* the body of result.data.forEach for one item
CacheItem(cache, item) ==
  IF CleanWord(item.word) = << >> THEN cache
  ELSE CacheSet(IF Len(cache) >= CACHE_MAX_SIZE
                  THEN DeleteFirstKey(cache) ELSE cache,
                ToLowerCase(CleanWord(item.word)), item)

\* result.data.forEach from item i on
RECURSIVE CacheItemsFrom(_, _, _)
CacheItemsFrom(cache, items, i) ==
  IF i > Len(items) THEN cache
  ELSE CacheItemsFrom(CacheItem(cache, items[i]), items, i + 1)

\* checkWords(words) is answered by /api/spell-check
CheckWordsCall(words) ==
  /\ wordCalls < MaxWordCalls
  /\ wordCalls' = wordCalls + 1
  /\ spellCheckCache' = CacheItemsFrom(spellCheckCache, AnswerTo(words), 1)
  /\ wordResult' = {Returned("checkWords", AnswerTo(words), TRUE)}

\* checkWords(words) when the fetch fails or the answer is no 2xx
CheckWordsCallFails(words) ==
  /\ wordCalls < MaxWordCalls
  /\ wordCalls' = wordCalls + 1
  /\ wordResult' =
       {Returned("checkWords",
                 [i \in DOMAIN words |->
                    [word |-> words[i], isCorrect |-> TRUE,
                     suggestions |-> << >>]],
                 TRUE)}
  /\ UNCHANGED spellCheckCache

\* isWordCorrect(word) for a word that is in the cache
IsWordCorrectCached(word) ==
  /\ CleanWord(word) # << >>
  /\ CacheHas(spellCheckCache, ToLowerCase(CleanWord(word)))
  /\ wordResult' =
       {Returned("isWordCorrect", << >>,
                 spellCheckCache[
                   CHOOSE i \in DOMAIN spellCheckCache :
                     spellCheckCache[i].key = ToLowerCase(CleanWord(word))
                 ].isCorrect)}
  /\ UNCHANGED << spellCheckCache, wordCalls >>

WordsNext ==
  \/ \E words \in WordBatches : CheckWordsCall(words) /\ UNCHANGED besideWords
  \/ \E words \in WordBatches :
       CheckWordsCallFails(words) /\ UNCHANGED besideWords
  \/ \E word \in EchoedWords :
       IsWordCorrectCached(word) /\ UNCHANGED besideWords

(***************************************************************************)
(* The hook useSpellCheck                                                  *)
(***************************************************************************)
NoRun == [id |-> 0, text |-> NoText, results |-> << >>, ok |-> TRUE]

InitFailed == "Failed to initialize spell checker"

SessionInit ==
  /\ isInitialized = FALSE
  /\ isInitializing = FALSE
  /\ initError = {}
  /\ spellChecker = FALSE
  /\ isLoading = FALSE
  /\ loadPromise = "none"
  /\ initAwait = FALSE
  /\ effectDue = TRUE
  /\ inits = 0
  /\ initDone = FALSE
  /\ checkRuns = 0
  /\ checkPending = {}
  /\ spellCalls = EmptyMap
  /\ lastRun = NoRun

\* isSpellCheckerReady()
IsSpellCheckerReady == build = "api" \/ spellChecker

\* the updates after the await of initialize, the finally left out
AfterAwaitNoFinally(ok) ==
  [isInitialized |-> isInitialized \/ ok,
   isInitializing |-> isInitializing,
   initError |-> IF ok THEN initError ELSE {InitFailed}]

\* the updates of initialize after its await: try or catch, then finally
AfterAwait(ok) ==
  [isInitialized |-> isInitialized \/ ok,
   isInitializing |-> FALSE,
   initError |-> IF ok THEN initError ELSE {InitFailed}]

\* the effect runs again when one of its dependencies has changed
DepsChanged ==
  /\ build = "nspell"
  /\ << isInitialized', isInitializing' >> # << isInitialized, isInitializing >>

\* the effect of the hook runs initialize() up to its await
EffectRuns ==
  /\ effectDue
  /\ IF build = "api"
       THEN \* if (isSpellCheckerReady()) { setIsInitialized(true); return; }
            /\ isInitialized' = TRUE
            /\ initDone' = TRUE
            /\ UNCHANGED << isInitializing, initError, spellChecker, isLoading,
                            loadPromise, initAwait, inits >>
     ELSE IF isInitialized \/ isInitializing
       THEN UNCHANGED << isInitialized, isInitializing, initError,
                         spellChecker, isLoading, loadPromise, initAwait,
                         inits, initDone >>
     ELSE /\ inits < MaxInits
          /\ inits' = inits + 1
          /\ isInitializing' = TRUE
          /\ initError' = {}
          /\ initAwait' = TRUE
          \* initializeSpellChecker()
          /\ IF spellChecker \/ (isLoading /\ loadPromise # "none")
               THEN UNCHANGED << isLoading, loadPromise >>
               ELSE isLoading' = TRUE /\ loadPromise' = "pending"
          /\ UNCHANGED << isInitialized, spellChecker, initDone >>
  /\ effectDue' = DepsChanged
  /\ UNCHANGED << checkRuns, checkPending, spellCalls, lastRun >>
  /\ UNCHANGED << spellVars, spellCheckCache >>

\* the import of the dictionary settles
DictionaryLoads(ok) ==
  /\ loadPromise = "pending"
  /\ loadPromise' = IF ok THEN "fulfilled" ELSE "rejected"
  /\ spellChecker' = ok
  /\ isLoading' = FALSE
  /\ UNCHANGED << isInitialized, isInitializing, initError, initAwait,
                  effectDue, inits, initDone, checkRuns, checkPending,
                  spellCalls, lastRun >>
  /\ UNCHANGED << spellVars, spellCheckCache >>

\* initialize() goes on after its await
InitializeResumes ==
  /\ initAwait
  /\ spellChecker \/ loadPromise \in {"fulfilled", "rejected"}
  /\ LET after == AfterAwait(spellChecker \/ loadPromise = "fulfilled")
     IN  /\ isInitialized' = after.isInitialized
         /\ isInitializing' = after.isInitializing
         /\ initError' = after.initError
  /\ initAwait' = FALSE
  /\ initDone' = TRUE
  /\ effectDue' = (effectDue \/ DepsChanged)
  /\ UNCHANGED << spellChecker, isLoading, loadPromise, inits, checkRuns,
                  checkPending, spellCalls, lastRun >>
  /\ UNCHANGED << spellVars, spellCheckCache >>

\* checkText(text) of the batching hook, up to its await of checkWords
CheckText(str) ==
  /\ build = "api"
  /\ checkRuns < MaxCheckTexts
  /\ checkRuns' = checkRuns + 1
  /\ LET words == WordsOf(str)
         id == checkRuns + 1
     IN  IF ~IsSpellCheckerReady
           THEN UNCHANGED << errors, checkPending, spellCalls, lastRun >>
         ELSE IF Len(words) = 0
           THEN /\ errors' = << >>
                /\ lastRun' = [id |-> id, text |-> str, results |-> << >>,
                               ok |-> TRUE]
                /\ UNCHANGED << checkPending, spellCalls >>
         ELSE /\ checkPending' = checkPending \cup
                   { [id |-> id, text |-> str, words |-> words] }
              /\ spellCalls' =
                   MapSet(spellCalls, id,
                          MapGet(spellCalls, id, << >>)
                            \o << [i \in 1..Len(words) |-> words[i].word] >>)
              /\ UNCHANGED << errors, lastRun >>
  /\ UNCHANGED << isInitialized, isInitializing, initError, spellChecker,
                  isLoading, loadPromise, initAwait, effectDue, inits,
                  initDone >>
  /\ UNCHANGED << spellRuns, spellPending, returned, spellCheckCache >>

\* result.data of an answer with these verdicts on the words of the run
ItemsOf(run, results) ==
  [i \in DOMAIN results |->
     [word |-> run.words[i].word, isCorrect |-> results[i].isCorrect,
      suggestions |-> results[i].suggestions]]

\* checkWords resolves with these results, from the oracle (ok) or from its
\* catch: the rest of checkText
CheckTextResumes(run, results, ok) ==
  /\ run \in checkPending
  /\ checkPending' = checkPending \ {run}
  /\ spellCheckCache' =
       IF ok THEN CacheItemsFrom(spellCheckCache, ItemsOf(run, results), 1)
       ELSE spellCheckCache
  /\ errors' = NewErrors(run.words, results)
  /\ lastRun' = [id |-> run.id, text |-> run.text, results |-> results,
                 ok |-> ok]
  /\ UNCHANGED << isInitialized, isInitializing, initError, spellChecker,
                  isLoading, loadPromise, initAwait, effectDue, inits,
                  initDone, checkRuns, spellCalls >>
  /\ UNCHANGED << spellRuns, spellPending, returned >>

\* /api/spell-check answers the batch
CheckWordsAnswers(run, results) == CheckTextResumes(run, results, TRUE)

\* the fetch fails or the answer is no 2xx: checkWords returns its defaults
CheckWordsFails(run) ==
  CheckTextResumes(run, SafeDefaults(Len(run.words)), FALSE)

\* checkText(text) of the hook that asks the dictionary word by word
CheckTextSync(str, results) ==
  /\ build = "nspell"
  /\ checkRuns < MaxCheckTexts
  /\ checkRuns' = checkRuns + 1
  /\ Len(results) = Len(WordsOf(str))
  /\ IF ~IsSpellCheckerReady
       THEN UNCHANGED << errors, lastRun >>
       ELSE /\ errors' = NewErrors(WordsOf(str), results)
            /\ lastRun' = [id |-> checkRuns + 1, text |-> str,
                           results |-> results, ok |-> TRUE]
  /\ UNCHANGED << isInitialized, isInitializing, initError, spellChecker,
                  isLoading, loadPromise, initAwait, effectDue, inits,
                  initDone, checkPending, spellCalls >>
  /\ UNCHANGED << spellRuns, spellPending, returned, spellCheckCache >>

SessionNext ==
  \/ EffectRuns /\ UNCHANGED besideSession
  \/ \E ok \in BOOLEAN : DictionaryLoads(ok) /\ UNCHANGED besideSession
  \/ InitializeResumes /\ UNCHANGED besideSession
  \/ \E str \in SpellTexts : CheckText(str) /\ UNCHANGED besideSession
  \/ \E run \in checkPending : \E results \in Answers(Len(run.words)) :
       CheckWordsAnswers(run, results) /\ UNCHANGED besideSession
  \/ \E run \in checkPending : CheckWordsFails(run) /\ UNCHANGED besideSession
  \/ \E str \in SpellTexts : \E results \in Answers(Len(WordsOf(str))) :
       CheckTextSync(str, results) /\ UNCHANGED besideSession

(***************************************************************************)
(* Specification                                                           *)
(***************************************************************************)
Init ==
  /\ EngineInit /\ watch \in Watches
  /\ GrammarInit /\ CheckerInit /\ SpellInit /\ RouteInit
  /\ SessionInit /\ build = "api"
  /\ NotExtracting
  /\ NoWordCalls

Next ==
  \/ \E d \in Docs : InitializeDocument(d) /\ UNCHANGED besideEngine
  \/ \E d \in Docs, data \in Payloads :
       ScheduleAutosave(d, data) /\ UNCHANGED besideEngine
  \/ \E d \in Docs, data \in Payloads :
       ForceSave(d, data) /\ UNCHANGED besideEngine
  \/ \E d \in Docs : CancelAutosave(d) /\ UNCHANGED besideEngine
  \/ \E d \in Docs : Cleanup(d) /\ UNCHANGED besideEngine
  \/ \E h \in Handles : DebounceFire(h) /\ UNCHANGED besideEngine
  \/ \E t \in BagToSet(retryTimers) :
       RetryFire(t) /\ UNCHANGED besideEngine
  \/ \E d \in Docs : IdleFire(d) /\ UNCHANGED besideEngine
  \/ \E c \in BagToSet(inflight) :
       SaveSucceeds(c) /\ UNCHANGED besideEngine
  \/ \E c \in BagToSet(inflight) :
       SaveFails(c) /\ UNCHANGED besideEngine

Spec == Init /\ [][Next]_vars

\* the same behaviours, recording one group of histories
InitDebounce == Init /\ watch = "debounce"

SpecDebounce == InitDebounce /\ [][Next]_vars

InitCalls == Init /\ watch = "calls"

SpecCalls == InitCalls /\ [][Next]_vars

InitRetry == Init /\ watch = "retry"

SpecRetry == InitRetry /\ [][Next]_vars

InitForce == Init /\ watch = "force"

SpecForce == InitForce /\ [][Next]_vars

\* the grammar check service, called directly
InitGrammar ==
  /\ EngineInit /\ watch = "debounce"
  /\ GrammarInit /\ CheckerInit /\ SpellInit /\ RouteInit
  /\ SessionInit /\ build = "api"
  /\ NotExtracting
  /\ NoWordCalls

SpecGrammar == InitGrammar /\ [][GrammarNext]_vars

\* the hooks and the checker on top of the service
InitChecker == InitGrammar

SpecChecker == InitChecker /\ [][CheckerNext]_vars

\* the suggestion lists of the two hooks
InitLists == InitGrammar

SpecLists == InitLists /\ [][ListsNext]_vars

\* the grammar API route
InitRoute == InitGrammar

SpecRoute == InitRoute /\ [][RouteNext]_vars

\* the spell-check session, in either build
InitSession ==
  /\ EngineInit /\ watch = "debounce"
  /\ GrammarInit /\ CheckerInit /\ SpellInit /\ RouteInit
  /\ SessionInit /\ build \in Builds
  /\ NotExtracting
  /\ NoWordCalls

SpecSession == InitSession /\ [][SessionNext]_vars

\* the dirtiness rule: scheduleAutosave on every tracked title and content
DirtyTitles == {"", "Doc", "New"}

DirtyContents == {"", "hell", "hello", "help!", "hello world"}

DirtyPayloads ==
  { Restrict([title |-> t, content |-> c], fields) :
      t \in DirtyTitles, c \in DirtyContents,
      fields \in SUBSET {"title", "content"} }

\* an open document whose last save left these values
InitDirty ==
  /\ \E c \in DirtyContents, t \in DirtyTitles :
       /\ lastContent = [d \in Docs |-> c]
       /\ lastTitle = [d \in Docs |-> t]
       /\ persisted = [d \in Docs |-> [title |-> t, content |-> c]]
  /\ pendingSaves = [d \in Docs |-> FALSE]
  /\ states = [d \in Docs |-> [DefaultState EXCEPT !.lastSaved = "date"]]
  /\ opened = [d \in Docs |-> TRUE]
  /\ timers = EmptyMap
  /\ retryAttempts = EmptyMap
  /\ armed = EmptyMap
  /\ retryTimers = EmptyBag
  /\ idleTimers = [d \in Docs |-> 0]
  /\ inflight = EmptyBag
  /\ lastCall = [d \in Docs |-> NoCall]
  /\ lastSched = [d \in Docs |-> {}]
  /\ burst = [d \in Docs |-> NoBurst]
  /\ carried = [d \in Docs |-> FALSE]
  /\ sinceExplicit = [d \in Docs |-> NoAuto]
  /\ forceResult = [d \in Docs |-> NoForce]
  /\ exhausted = [d \in Docs |-> FALSE]
  /\ watch = "calls"
  /\ GrammarInit /\ CheckerInit /\ SpellInit /\ RouteInit
  /\ SessionInit /\ build = "api"
  /\ NotExtracting
  /\ NoWordCalls

DirtyNext ==
  \/ \E d \in Docs, data \in DirtyPayloads :
       ScheduleAutosave(d, data) /\ UNCHANGED besideEngine
  \/ \E h \in Handles : DebounceFire(h) /\ UNCHANGED besideEngine
  \/ \E c \in BagToSet(inflight) :
       SaveSucceeds(c) /\ UNCHANGED besideEngine

SpecDirty == InitDirty /\ [][DirtyNext]_vars

\* the entry of an earlier check that found nothing to improve, written at
\* time t
EarlierEntry(t) ==
  [timestamp |-> t, suggestions |-> << >>, score |-> 85,
   improved_score |-> 85, flesch_kincaid_grade |-> 5]

\* a cache that earlier checks have filled with n entries, 2000 ms apart; in
\* the shape "middle" the oldest entry sits in the middle of the keys, in
\* "twins" two entries are the oldest
FilledCache(n, shape) ==
  LET at(i) == IF shape = "middle"
                 THEN (IF i = n \div 2 THEN 0 ELSE i)
               ELSE (IF i = 1 THEN 2 ELSE i)
  IN  [k \in {"k" \o ToString(i) : i \in 1..n} |->
         EarlierEntry(StartTime - THROTTLE_INTERVAL * (n + 1)
                        + THROTTLE_INTERVAL * at(
                            CHOOSE i \in 1..n : k = "k" \o ToString(i)))]

FilledCaches ==
  { FilledCache(n, shape) :
      n \in {MAX_CACHE_SIZE - 1, MAX_CACHE_SIZE},
      shape \in {"middle", "twins"} }

\* cacheResult(sentence, result) is called for an answered request
CacheResultCall(sentence, result) ==
  /\ requestCount < MaxRequests
  /\ Trimmed(sentence) # << >>
  /\ requestCount' = requestCount + 1
  /\ cacheStore' = CacheResult(cacheStore, sentence, result, now)
  /\ UNCHANGED << now, ticks, lastRequestTime, totalCost, costStore, requests,
                  lastCheck, started, reported, answered, asked >>

\* getCachedResult(sentence) is called
GetCachedResultCall(sentence) ==
  /\ lastCheck' =
       LET found == GetCachedResult(cacheStore, sentence, now)
       IN  Settled(IF found = {} THEN "miss" ELSE "cached", found)
  /\ UNCHANGED << now, ticks, lastRequestTime, totalCost, requestCount,
                  costStore, cacheStore, requests, started, reported,
                  answered, asked >>

CacheNext ==
  \/ \E d \in Jumps : Tick(d) /\ UNCHANGED besideGrammar
  \/ \E sentence \in Sentences :
       CacheResultCall(sentence, OracleResult(Trimmed(sentence), 0))
         /\ UNCHANGED besideGrammar
  \/ \E sentence \in Sentences :
       GetCachedResultCall(sentence) /\ UNCHANGED besideGrammar

\* the cache functions on a cache that earlier checks have filled
InitCache ==
  /\ EngineInit /\ watch = "calls"
  /\ now = StartTime
  /\ ticks = 0
  /\ lastRequestTime = 0
  /\ totalCost = 0
  /\ requestCount = 0
  /\ costStore = {}
  /\ cacheStore \in FilledCaches
  /\ requests = {}
  /\ lastCheck = NoCheck
  /\ started = {}
  /\ reported = << >>
  /\ answered = EmptyMap
  /\ asked = {}
  /\ CheckerInit
  /\ SpellInit
  /\ RouteInit
  /\ SessionInit /\ build = "api"
  /\ NotExtracting
  /\ NoWordCalls

SpecCache == InitCache /\ [][CacheNext]_vars

\* extractCurrentSentence for every text and cursor offset of the samples
InitExtract ==
  /\ EngineInit /\ watch = "calls"
  /\ GrammarInit
  /\ CheckerInit
  /\ SpellInit
  /\ RouteInit
  /\ SessionInit /\ build = "api"
  /\ sample \in Samples
  /\ cursorAt \in Offsets(sample)
  /\ extracted = {}
  /\ NoWordCalls

SpecExtract == InitExtract /\ [][ExtractNext]_vars

\* the spellcheck library on a cache that earlier calls have filled
InitWords ==
  /\ EngineInit /\ watch = "calls"
  /\ GrammarInit
  /\ CheckerInit
  /\ SpellInit
  /\ RouteInit
  /\ SessionInit /\ build = "api"
  /\ NotExtracting
  /\ spellCheckCache \in EarlierCaches
  /\ wordCalls = 0
  /\ wordResult = {}

SpecWords == InitWords /\ [][WordsNext]_vars

(***************************************************************************)
(* Properties                                                              *)
(***************************************************************************)
StatusOf(d) == GetState(states, d).status

\* the fields a payload gives are the ones the gateway holds
Persists(d, data) == \A f \in DOMAIN data : persisted[d][f] = data[f]

\* a persistence call for d is started by the step
StartsCall(d) == CountOf(inflight', d) > CountOf(inflight, d)

Hello == [content |-> "hello"]

HelloWorld == [title |-> "Doc", content |-> "hello world"]

\* C1: a burst of dirty scheduleAutosave calls, each arriving before the
\* timer of the previous one has fired, leaves exactly one debounce timer
\* armed, with the full delay and the payload of the last call, and once it
\* has fired exactly one persistence call was issued for the burst, carrying
\* that last payload.
C1_DebounceOneSave ==
  \A d \in Docs :
    burst[d].n >= 1 =>
      IF TimersOf(d) # {}
        THEN /\ burst[d].saves = << >>
             /\ TimersOf(d) = {timers[d]}
             /\ {armed[timers[d]].data} = burst[d].last
             /\ armed[timers[d]].delay = AUTOSAVE_DELAY
        ELSE /\ Len(burst[d].saves) = 1
             /\ {burst[d].saves[1]} = burst[d].last

\* C1 witness: the burst {content: 'hello'}, then 'hello world' has ended in
\* one save, of 'hello world'
C1_Witness ==
  \E d \in Docs :
    /\ burst[d].n >= 2
    /\ burst[d].first = {Hello}
    /\ burst[d].saves = << HelloWorld >>
    /\ [doc |-> d, data |-> HelloWorld, force |-> FALSE] \in BagToSet(inflight)

\* C2: at most one persistence call per document is in flight.
C2_SingleWriter == \A d \in Docs : CountOf(inflight, d) <= 1

\* C3: a dirty scheduleAutosave that arrived while a save was in flight is
\* picked up by a later save cycle without a further call: once nothing is
\* armed or in flight any more, a save carrying its payload has been started
\* (or the payload is what the gateway holds).
C3_EditDuringSaveIsCarried ==
  \A d \in Docs :
    ( /\ lastCall[d].op = "scheduleAutosave"
      /\ lastCall[d].effect = "skipped"
      /\ lastCall[d].inFlight
      /\ lastCall[d].dirty
      /\ Quiescent(d) )
    => \A data \in lastSched[d] : carried[d] \/ Persists(d, data)

\* C4: between two explicit calls a failing save is retried at most three
\* times, after 1000, 2000 and 4000 ms; then one save-error notification is
\* emitted, status is 'error' with isDirty, the retry counter is cleared and
\* no further persistence call is made.
C4_RetryBound ==
  \A d \in Docs :
    /\ IsPrefix(sinceExplicit[d].waits, BackoffWaits)
    /\ sinceExplicit[d].errors <= 1
    /\ ~sinceExplicit[d].callsAfterError
    /\ sinceExplicit[d].errors = 1 =>
         /\ StatusOf(d) = "error"
         /\ GetState(states, d).isDirty
         /\ d \notin DOMAIN retryAttempts

\* C5: with no save in flight, a scheduleAutosave whose payload is not dirty
\* leaves status 'idle' and isDirty false, and no persistence call is started
\* until the next dirty scheduleAutosave or forceSave.
C5_CleanScheduleNoWork ==
  [][\A d \in Docs :
       ( /\ lastCall'[d].op = "scheduleAutosave"
         /\ lastCall'[d].effect = "clean"
         /\ ~lastCall'[d].inFlight )
       => /\ (\E data \in Payloads : ScheduleAutosave(d, data))
               => (StatusOf(d)' = "idle" /\ ~GetState(states, d).isDirty')
          /\ ~StartsCall(d)]_vars

\* C6: the boolean forceSave resolves to is true exactly when its
\* persistence call succeeded.
C6_ForceSaveResult ==
  \A d \in Docs :
    forceResult[d].resolved =>
      (forceResult[d].returned <=> forceResult[d].saved)

\* C7: between cleanup and the next initializeDocument no persistence call
\* is started and no engine state of the document exists.
C7_Teardown ==
  [][\A d \in Docs :
       ~opened'[d] =>
         /\ d \notin (DOMAIN states' \cup DOMAIN lastContent'
                        \cup DOMAIN lastTitle' \cup DOMAIN retryAttempts'
                        \cup DOMAIN pendingSaves')
         /\ ~opened[d] => ~StartsCall(d)]_vars

\* C8: cancelAutosave turns 'pending' into 'idle' and leaves every other
\* status, aborts no call in flight, and after it no previously scheduled
\* work starts a persistence call until the next scheduleAutosave or
\* forceSave (the last part stated for a cancelAutosave made with no call in
\* flight, so that whatever runs afterwards was scheduled before it).
C8_CancelStopsScheduledWork ==
  [][\A d \in Docs :
       /\ CancelAutosave(d) =>
            /\ StatusOf(d)' = IF StatusOf(d) = "pending" THEN "idle"
                              ELSE StatusOf(d)
            /\ inflight' = inflight
       /\ ( /\ lastCall[d].op = "cancelAutosave"
            /\ lastCall'[d].op = "cancelAutosave"
            /\ ~lastCall[d].inFlight ) => ~StartsCall(d)]_vars

\* C9: status = 'pending' implies isDirty = true.
C9_PendingImpliesDirty ==
  \A d \in DOMAIN states : states[d].status = "pending" => states[d].isDirty

\* C10: once the scheduleAutosave calls have stopped and everything armed or
\* in flight has run to its end without exhausting the retries, the gateway
\* holds the title/content of the last dirty scheduleAutosave payload.
C10_FinalStatePersisted ==
  \A d \in Docs :
    ( /\ lastCall[d].op = "scheduleAutosave"
      /\ lastCall[d].dirty
      /\ Quiescent(d)
      /\ StatusOf(d) # "error" )
    => \A data \in lastSched[d] : Persists(d, data)

\* C11: once the retries of a document ran out (status 'error', isDirty
\* true), isDirty stays true until a persistence call of the document
\* succeeds.
C11_UnsavedStaysDirty ==
  \A d \in Docs : exhausted[d] => GetState(states, d).isDirty

(***************************************************************************)
(* Properties of the grammar check service                                 *)
(***************************************************************************)
\* the ledger of the current window has reached the cap
LedgerAtCap ==
  \E data \in costStore :
    data.totalCost >= MAX_COST_PER_HOUR /\ now <= data.resetTime

CacheMiss(sentence) == GetCachedResult(cacheStore, sentence, now) = {}

\* less than the throttle interval has passed since the latest oracle request
TooSoon == \E t \in started : now - t < THROTTLE_INTERVAL

\* the start times of oracle requests are at least 2000 ms apart
RequestsSpaced ==
  \A r \in requests' \ requests, t \in started :
    r.startTime - t >= THROTTLE_INTERVAL

\* C12 as claimed: oracle requests start at least 2000 ms apart, and a
\* checkGrammar call that is no cache hit and comes less than 2000 ms after
\* the latest request fails with the 'please wait' error and sends nothing.
C12_ThrottleAsClaimed ==
  [][/\ RequestsSpaced
     /\ \A sentence \in Sentences :
          (CheckGrammar(sentence) /\ CacheMiss(sentence) /\ TooSoon)
          => (lastCheck'.outcome = "throttled" /\ requests' = requests)]_vars

\* C12 amended: oracle requests start at least 2000 ms apart; a checkGrammar
\* call that is no cache hit and comes less than 2000 ms after the latest
\* request fails and sends nothing, with the 'please wait' error when the
\* sentence is not blank and the ledger is below the cap (a blank sentence
\* and a ledger at the cap are reported first, with their own errors).
C12_Throttle ==
  [][/\ RequestsSpaced
     /\ \A sentence \in Sentences :
          (CheckGrammar(sentence) /\ CacheMiss(sentence) /\ TooSoon)
          => /\ requests' = requests
             /\ lastCheck'.outcome =
                  IF Trim(sentence) = << >> THEN "noSentence"
                  ELSE IF LedgerAtCap THEN "costLimit"
                  ELSE "throttled"]_vars

\* C12 witness: two oracle requests were made and a call that came too soon
\* was turned away with the 'please wait' error
C12_Witness == requestCount = 2 /\ lastCheck.outcome = "throttled"

\* C13 as claimed: while the ledger is at the cap every checkGrammar call is
\* rejected with the cost-limit error, cached or not.
C13_CostCapAsClaimed ==
  [][\A sentence \in Sentences :
       (CheckGrammar(sentence) /\ LedgerAtCap)
       => lastCheck'.outcome = "costLimit"]_vars

\* C13 amended: while the ledger is at the cap every checkGrammar call of a
\* sentence that is not blank and not answered from the cache is rejected
\* with the cost-limit error and sends no request; a cache hit is still
\* served.
C13_CostCap ==
  [][\A sentence \in Sentences :
       (CheckGrammar(sentence) /\ LedgerAtCap /\ Trim(sentence) # << >>)
       => /\ requests' = requests
          /\ lastCheck'.outcome =
               IF CacheMiss(sentence) THEN "costLimit" ELSE "cached"]_vars

\* C13 witness: the ledger is at the cap and a call was rejected for it
C13_Witness == LedgerAtCap /\ lastCheck.outcome = "costLimit"

\* C14: a sentence whose check completed successfully less than 24 h ago,
\* submitted again up to letter case and surrounding white space, is answered
\* with the result of that check, without a request, and the ledger and the
\* throttle timestamp stay as they are.
C14_CacheHit ==
  [][\A sentence \in Sentences :
       ( /\ CheckGrammar(sentence)
         /\ Norm(sentence) \in DOMAIN answered
         /\ now - answered[Norm(sentence)].at < CACHE_RETENTION_MS )
       => /\ lastCheck' =
               Settled("cached", {answered[Norm(sentence)].result})
          /\ UNCHANGED << requests, costStore, lastRequestTime >>]_vars

RECURSIVE SumCosts(_)
SumCosts(log) ==
  IF log = << >> THEN 0 ELSE Head(log).cost + SumCosts(Tail(log))

\* the costs reported since the window of the ledger began
ReportedSince(t) == SelectSeq(reported, LAMBDA e : e.at >= t)

C18_FailedCheckKeepsStores ==
  [][\A r \in requests :
       (r \notin requests' /\ lastCheck'.outcome = "error")
       => UNCHANGED << cacheStore, costStore >>]_vars

\* the window of the stored ledger has passed
WindowPassed == \E data \in costStore : now > data.resetTime

\* C24: checkGrammar starts no oracle request while the ledger of the current
\* window is at the cap; at the cap, a check of a sentence that differs from
\* every sentence sent before fails with the cost-limit error; once resetTime
\* has passed a check is not turned away by the cost limit.
C24_NoPaidCallPastCap ==
  [][\A sentence \in Sentences :
       CheckGrammar(sentence)
       => /\ LedgerAtCap => requests' = requests
          /\ ( /\ LedgerAtCap
               /\ Trimmed(sentence) # << >>
               /\ Norm(sentence) \notin asked )
             => lastCheck'.outcome = "costLimit"
          /\ WindowPassed
               => (requests' # requests \/ lastCheck'.outcome # "costLimit")]_vars

(***************************************************************************)
(* Properties of the grammar check hooks                                   *)
(***************************************************************************)
\* the sentences of the checks started since the current burst began
BurstChecks ==
  SelectSeq(checkLog, LAMBDA check : check.burst = editBurst.n)

\* both timers of the pipeline have fired after the latest edit
PipelineQuiet == edits > 0 /\ timeoutRef = {} /\ timeoutId = {}

\* the final text and its sentence were not handled in an earlier burst
FreshText ==
  /\ \A h \in handed : h.text = text => h.burst = editBurst.n
  /\ \A i \in 1..Len(checkLog) :
       checkLog[i].sentence = SentenceOf(text) =>
         checkLog[i].burst = editBurst.n

\* C16: a burst of edits that began with no timer pending and ends in a
\* text whose sentence has at least 10 characters and was not handled
\* before gives, once the idle timer and the checker's timer have fired
\* (no recheck asked for), exactly one check, of the sentence of the final
\* text.
C16_IdleDebounceOneCheck ==
  ( /\ PipelineQuiet
    /\ rechecks = 0
    /\ editBurst.clean
    /\ FreshText
    /\ Len(Trim(SentenceOf(text))) >= 10 )
  => /\ Len(BurstChecks) = 1
     /\ BurstChecks[1].sentence = SentenceOf(text)

\* C17: a scheduleCheck(s) that is skipped does not follow a failed check
\* of s: after a check of s that failed, scheduleCheck(s) schedules a new
\* check.
C17_SkipOnlyAfterSuccess ==
  [][( /\ lastSchedule'.n # lastSchedule.n
       /\ lastSchedule'.skipped
       /\ lastSchedule'.sentence \in DOMAIN outcomeOf )
     => outcomeOf[lastSchedule'.sentence] # "failed"]_vars

\* C25: while every check comes from the idle hook, the sentence of a check
\* the checker starts is the sentence around the cursor in the editor text as
\* it is when the check starts: no sentence taken from an older text is
\* checked after a newer edit.
C25_Freshness ==
  [][(checkLog' # checkLog /\ rechecks = 0)
       => checkLog'[Len(checkLog')].sentence = SentenceOf(text)]_vars

\* checkGrammar of the hook is called with the text of the editor
HookCalled == (IdleTimerFires /\ text # lastTextRef) \/ Recheck

\* C28: a checkGrammar call of the hook whose extracted sentence has fewer
\* than 10 characters after trimming schedules no check, starts no oracle
\* request, adds no cost and leaves suggestions, scores, error and isChecking
\* as they are.
C28_MinimumLength ==
  [][( /\ HookCalled
       /\ Trim(text) # << >>
       /\ Len(Trim(SentenceOf(text))) < 10 )
     => /\ timeoutId' = timeoutId
        /\ lastSchedule' = lastSchedule
        /\ requests' = requests
        /\ costStore' = costStore /\ totalCost' = totalCost
        /\ ui' = ui]_vars

\* the idle hook has handed on a text with a short sentence while the
\* suggestions of the one check before it are shown
C28_Witness ==
  /\ text = Short /\ lastTextRef = Short
  /\ \E h \in handed : h.text = Short
  /\ ui.suggestions # << >>
  /\ lastSchedule.n = 1

(***************************************************************************)
(* Properties of the suggestion lists                                      *)
(***************************************************************************)
\* after is before without its entry at index (counted from 0), the others
\* in their order
IsRemovalOf(before, index, after) ==
  /\ Len(after) = Len(before) - 1
  /\ \A j \in 1..Len(after) :
       after[j] = IF j <= index THEN before[j] ELSE before[j + 1]

\* C19: with a valid index, applySuggestion and dismissSuggestion of the
\* grammar hook and applySuggestion of the spelling hook leave the list
\* without exactly the entry at that index, the others in their order; the
\* spelling applySuggestion returns the suggestion it was given and starts
\* no checkText run.
C19_TargetedRemoval ==
  [][/\ \A index \in Indexes, newText \in Fixes :
          ( /\ ApplySuggestion(index, newText) \/ DismissSuggestion(index)
            /\ ValidIndex(ui.suggestions, index) )
          => IsRemovalOf(ui.suggestions, index, ui'.suggestions)
     /\ \A index \in Indexes, suggestion \in Fixes :
          ( /\ SpellApplySuggestion(index, suggestion)
            /\ ValidIndex(errors, index) )
          => /\ IsRemovalOf(errors, index, errors')
             /\ returned' = {suggestion}
             /\ UNCHANGED << spellRuns, spellPending >>]_vars

\* C19 witness: applySuggestion of the spelling hook took one error out of
\* the list checkText had set, returned its suggestion, and two are left
C19_Witness ==
  /\ spellRuns = 1
  /\ spellPending = {}
  /\ errors = << "e1", "e2" >>
  /\ returned = {"fix"}

(***************************************************************************)
(* Properties of the grammar API route                                     *)
(***************************************************************************)
IsOversize(body) ==
  "sentence" \in DOMAIN body /\ Len(body.sentence) > MAX_SENTENCE_LENGTH

\* the paid model is never called for an oversize sentence, and an oversize
\* request is never counted by updateRequestTracking
OversizeKeptOut ==
  /\ \A call \in modelCalls : Len(call.sentence) <= MAX_SENTENCE_LENGTH
  /\ \A h \in handlers : IsOversize(h.body) => h.pc = "json"
  /\ \A id \in tracked :
       /\ id \in DOMAIN responses => ~IsOversize(responses[id].body)
       /\ \A h \in handlers : h.id = id => ~IsOversize(h.body)

\* C20 as claimed: the paid model is never called for a sentence of more
\* than 500 characters; such a request is answered 400 and is not counted
\* in the throttle and rate tracking.
C20_OversizeAsClaimed ==
  /\ OversizeKeptOut
  /\ \A id \in DOMAIN responses :
       IsOversize(responses[id].body) => responses[id].status = 400

\* C20 amended: the paid model is never called for a sentence of more than
\* 500 characters and such a request is never counted in the tracking; it
\* is answered 400, or 429 when the client is throttled as the request
\* arrives.
C20_OversizeRejected ==
  /\ OversizeKeptOut
  /\ \A id \in DOMAIN responses :
       IsOversize(responses[id].body) =>
         \/ responses[id].status = 400
              /\ responses[id].error = "Sentence too long"
         \/ responses[id].status = 429

\* C20 witness: an oversize request was answered 400 after another request
\* of the client had been passed to the model
C20_Witness ==
  \E id \in DOMAIN responses :
    /\ IsOversize(responses[id].body)
    /\ responses[id].status = 400
    /\ \E call \in modelCalls : call.id < id

(***************************************************************************)
(* Properties of the spell-check session                                   *)
(***************************************************************************)
\* the readiness states the hook reports
Readiness ==
  { s \in {"initialized", "inProgress", "failed"} :
      \/ s = "initialized" /\ isInitialized
      \/ s = "inProgress" /\ isInitializing
      \/ s = "failed" /\ initError # {} }

\* C21: at most one of the readiness states initialized, in progress and
\* failed holds, and once the initialization has finished exactly one of
\* initialized and failed holds.
C21_Readiness ==
  /\ Cardinality(Readiness) <= 1
  /\ (initDone /\ ~isInitializing)
       => (Readiness = {"initialized"} \/ Readiness = {"failed"})

\* C21 witness: an initialization has ended in the failed state
C21_Witness ==
  /\ initDone
  /\ inits > 0
  /\ Readiness = {"failed"}

(***************************************************************************)
(* Properties of the dirtiness rule                                        *)
(***************************************************************************)
\* the rule as stated: a given title that differs, or a given content that
\* differs by at least the threshold in length or along with the title
DirtyAsStated(lastSavedContent, lastSavedTitle, data) ==
  LET titleDiffers == Has(data, "title") /\ data.title # lastSavedTitle
  IN  \/ titleDiffers
      \/ /\ Has(data, "content")
         /\ data.content # lastSavedContent
         /\ \/ Abs(Len(data.content) - Len(lastSavedContent))
                 >= MIN_CONTENT_CHANGE_LENGTH
            \/ titleDiffers

\* C22: a scheduleAutosave call that is not skipped judges its payload dirty
\* exactly when the title is given and differs from the last saved title, or
\* the content is given, differs from the last saved content, and differs by
\* at least 5 in length or the title differs too.
C22_DirtinessRule ==
  [][\A d \in Docs, data \in DirtyPayloads :
       ( /\ ScheduleAutosave(d, data)
         /\ ~MapGet(pendingSaves, d, FALSE) )
       => ( GetState(states', d).isDirty
              <=> DirtyAsStated(MapGet(lastContent, d, ""),
                                MapGet(lastTitle, d, ""), data) )]_vars

\* C22 witness: a payload whose content differs from the last saved one by
\* fewer than 5 characters, with the title as saved, was judged clean
C22_Witness ==
  \E d \in Docs : \E data \in lastSched[d] :
    /\ lastCall[d].effect = "clean"
    /\ StatusOf(d) = "idle"
    /\ inflight = EmptyBag
    /\ Has(data, "content") /\ data.content # lastContent[d]
    /\ Has(data, "title") /\ data.title = lastTitle[d]

(***************************************************************************)
(* Properties of the status protocol                                       *)
(***************************************************************************)
\* C23: every change of a document's status follows the protocol; in
\* particular the status of a tracked document becomes 'saved' or 'error'
\* only directly from 'saving'.
C23_StatusProtocol ==
  [][\A d \in Docs :
       ( /\ d \in DOMAIN states
         /\ GetState(states', d).status \in {"saved", "error"}
         /\ GetState(states', d).status # StatusOf(d) )
       => StatusOf(d) = "saving"]_vars

(***************************************************************************)
(* Properties of the sentence extraction                                   *)
(***************************************************************************)
\* the offsets just behind the terminators of the text
Terminated(str) == {i \in 1..Len(str) : str[i] \in SentenceEnders}

\* the terminator-delimited spans of the text, the trailing fragment included
Delimited(str) ==
  LET starts == {0} \cup Terminated(str)
      next(s) == {t \in Terminated(str) : t > s}
  IN  { [start |-> s,
         end |-> IF next(s) = {} THEN Len(str)
                 ELSE CHOOSE t \in next(s) : \A u \in next(s) : t <= u] :
        s \in {x \in starts : x < Len(str)} }

\* C26: for a text with a terminator and a cursor offset in it, the text
\* returned is the trimmed text of a terminator-delimited span that holds the
\* cursor, and behind the last terminator it is the trimmed trailing fragment.
C26_SentenceAtCursor ==
  \A result \in extracted :
    Terminated(sample) # {}
    => /\ \E span \in Delimited(sample) :
            /\ span.start <= cursorAt /\ cursorAt <= span.end
            /\ result = Trim(Substring(sample, span.start, span.end))
       /\ (\A t \in Terminated(sample) : cursorAt > t)
            => \E span \in Delimited(sample) :
                 /\ span.end = Len(sample)
                 /\ result = Trim(Substring(sample, span.start, span.end))

\* C27: for a text that is not empty and has no terminator, the text returned
\* is the trimmed window of at most 100 characters on each side of the cursor.
C27_BoundedWindow ==
  \A result \in extracted :
    (sample # << >> /\ Terminated(sample) = {})
    => result = Trim(Substring(sample, Max(0, cursorAt - 100),
                               Min(Len(sample), cursorAt + 100)))

(***************************************************************************)
(* Properties of the grammar cache                                         *)
(***************************************************************************)
\* C29: after a cacheResult call the cache holds at most 100 entries, the new
\* entry among them; the entries removed are as many as the insertion went
\* beyond 100 and none of them is more recent than an entry that is kept, and
\* the other entries are kept as they were.  A lookup returns no entry whose
\* timestamp is 24 hours old or older.
C29_CacheBound ==
  [][ /\ \A sentence \in Sentences :
           ( /\ requestCount' = requestCount + 1
             /\ CacheResultCall(sentence, OracleResult(Trimmed(sentence), 0)) )
           => LET key == Hash(sentence)
                  added == DOMAIN cacheStore \cup {key}
                  removed == added \ DOMAIN cacheStore'
              IN  /\ Cardinality(DOMAIN cacheStore') <= MAX_CACHE_SIZE
                  /\ DOMAIN cacheStore' \subseteq added
                  /\ key \in DOMAIN cacheStore'
                  /\ cacheStore'[key].timestamp = now
                  /\ Cardinality(removed) =
                       Max(0, Cardinality(added) - MAX_CACHE_SIZE)
                  /\ \A r \in removed, k \in DOMAIN cacheStore' :
                       cacheStore[r].timestamp <= cacheStore'[k].timestamp
                  /\ \A k \in DOMAIN cacheStore' \ {key} :
                       cacheStore'[k] = cacheStore[k]
      /\ \A sentence \in Sentences :
           ( /\ Hash(sentence) \in DOMAIN cacheStore
             /\ now - cacheStore[Hash(sentence)].timestamp
                  >= CACHE_RETENTION_MS
             /\ GetCachedResultCall(sentence) )
           => lastCheck'.result = {} ]_vars

\* two insertions have pushed entries out of a full cache, and a lookup of a
\* sentence whose entry is 24 hours old has found nothing
C29_Witness ==
  /\ Cardinality(DOMAIN cacheStore) = MAX_CACHE_SIZE
  /\ requestCount = 2
  /\ "k1" \notin DOMAIN cacheStore
  /\ Hash(Other) \in DOMAIN cacheStore
  /\ now - cacheStore[Hash(Other)].timestamp >= CACHE_RETENTION_MS
  /\ lastCheck = Settled("miss", {})

(***************************************************************************)
(* Properties of the spell check of a text                                 *)
(***************************************************************************)
\* the characters from offset a up to offset b are all of [\w'-]
TokenRun(str, a, b) == \A k \in (a + 1)..b : IsTokenChar(str[k])

\* the tokens of a text: of every run of letters, digits, _, ' and - that has
\* a word character, the stretch from its first to its last word character
TokenSpans(str) ==
  { span \in [start : 0..Len(str), end : 0..Len(str)] :
      /\ span.start < span.end
      /\ TokenRun(str, span.start, span.end)
      /\ IsWordChar(str[span.start + 1]) /\ IsWordChar(str[span.end])
      /\ ~\E j \in 1..span.start :
            IsWordChar(str[j]) /\ TokenRun(str, j, span.start)
      /\ ~\E j \in (span.end + 1)..Len(str) :
            IsWordChar(str[j]) /\ TokenRun(str, span.end, j) }

\* the tokens in text order
SpansInOrder(str) ==
  CHOOSE seq \in [1..Cardinality(TokenSpans(str)) -> TokenSpans(str)] :
    \A i, j \in DOMAIN seq : i < j => seq[i].start < seq[j].start

\* the tokens of the texts of the model, computed once
SpanTable == [str \in SpellTexts |-> SpansInOrder(str)]

\* the tokens judged incorrect, in text order, with offsets and suggestions
Misspellings(str, results) ==
  LET spans == SpanTable[str]
      wrong == SelectSeq([i \in DOMAIN spans |-> i],
                         LAMBDA i : ~results[i].isCorrect)
  IN  [n \in DOMAIN wrong |->
         [word |-> SubSeq(str, spans[wrong[n]].start + 1, spans[wrong[n]].end),
          start |-> spans[wrong[n]].start,
          end |-> spans[wrong[n]].end,
          suggestions |-> results[wrong[n]].suggestions]]

\* C30: a checkText call for a text without tokens calls no oracle and
\* empties the error list; for a text with tokens it makes one batched call
\* with all tokens in text order, and when the oracle has answered, the error
\* list is exactly the tokens judged incorrect, in text order, with their
\* offsets in the text and the suggestions of the oracle, whatever the list
\* was before; no further call is made.
C30_CheckTextResult ==
  [][ /\ \A str \in SpellTexts :
           (checkRuns' = checkRuns + 1 /\ CheckText(str))
           => LET spans == SpanTable[str]
              IN  IF Len(spans) = 0
                    THEN spellCalls' = spellCalls /\ errors' = << >>
                    ELSE /\ checkRuns + 1 \notin DOMAIN spellCalls
                         /\ spellCalls' =
                              MapSet(spellCalls, checkRuns + 1,
                                << [i \in DOMAIN spans |->
                                     SubSeq(str, spans[i].start + 1,
                                            spans[i].end)] >>)
      /\ \A run \in checkPending :
           \A results \in Answers(Len(run.words)) :
             (checkPending' # checkPending /\ CheckWordsAnswers(run, results))
             => /\ errors' = Misspellings(run.text, results)
                /\ spellCalls' = spellCalls ]_vars

\* the second run, of a text with three tokens in one batched call, has set
\* the error list to the two tokens judged incorrect
C30_Witness ==
  /\ build = "api"
  /\ lastRun.id = 2 /\ lastRun.text = Joined
  /\ spellCalls[2] =
       << << << "i", "t", "'", "s" >>,
             << "o", "f", "f", "-", "k", "e", "y" >>,
             << "x", "2" >> >> >>
  /\ errors =
       << [word |-> << "i", "t", "'", "s" >>, start |-> 0, end |-> 4,
           suggestions |-> << "fix" >>],
          [word |-> << "x", "2" >>, start |-> 16, end |-> 18,
           suggestions |-> << >>] >>

(***************************************************************************)
(* Properties of overlapping and failing spell checks                      *)
(***************************************************************************)
\* C31: when two checkText calls have each made their oracle call and both
\* calls have completed, the error list is one computed from the text
\* submitted last: the tokens of that text the oracle can have judged
\* incorrect, with their offsets in that text.
C31_LatestTextWins ==
  ( /\ build = "api"
    /\ checkRuns = 2
    /\ {1, 2} \subseteq DOMAIN spellCalls
    /\ checkPending = {} )
  => \E str \in SpellTexts :
       /\ spellCalls[2] =
            << [i \in DOMAIN SpanTable[str] |->
                  SubSeq(str, SpanTable[str][i].start + 1,
                         SpanTable[str][i].end)] >>
       /\ \E results \in Answers(Len(SpanTable[str])) :
            errors = Misspellings(str, results)

(***************************************************************************)
(* Properties of the spell cache                                           *)
(***************************************************************************)
KeysOf(cache) == [i \in DOMAIN cache |-> cache[i].key]

\* the characters of a cleaned word in lower case
CleanLower ==
  { LowerLetters[i] : i \in 1..26 } \cup { DigitChars[i] : i \in 1..10 }
    \cup { "_", "'", "-" }

\* C32: the spell cache never holds more than 1000 entries and every key is a
\* cleaned word in lower case; a checkWords call leaves the entries that
\* stay in their order and drops only from the front, the entries inserted
\* earliest, and none while the cache and the words of the call fit; a lookup
\* leaves the cache as it is.
C32_SpellCacheBound ==
  [][ /\ Len(spellCheckCache') <= CACHE_MAX_SIZE
      /\ \A i \in DOMAIN spellCheckCache' :
           LET key == spellCheckCache'[i].key
           IN  key # << >> /\ \A k \in DOMAIN key : key[k] \in CleanLower
      /\ wordCalls' = wordCalls + 1
           => LET words == Len((CHOOSE r \in wordResult' : TRUE).items)
              IN  \E n \in 0..Min(words, Len(spellCheckCache)) :
                    \E m \in 0..Min(words, Len(spellCheckCache')) :
                      /\ Len(spellCheckCache') - m = Len(spellCheckCache) - n
                      /\ KeysOf(SubSeq(spellCheckCache', 1,
                                       Len(spellCheckCache') - m))
                           = KeysOf(SubSeq(spellCheckCache, n + 1,
                                           Len(spellCheckCache)))
                      /\ (Len(spellCheckCache) + words <= CACHE_MAX_SIZE)
                           => n = 0
      /\ wordCalls' = wordCalls => spellCheckCache' = spellCheckCache ]_vars

\* a call with two new words on a full cache has dropped the two entries
\* inserted earliest and put the new ones behind the rest
C32_Witness ==
  /\ Len(spellCheckCache) = CACHE_MAX_SIZE
  /\ spellCheckCache[1].key = EarlierWord(3)
  /\ spellCheckCache[CACHE_MAX_SIZE - 1].key = << "t", "e", "h" >>
  /\ spellCheckCache[CACHE_MAX_SIZE].key = << "c", "a", "t" >>


C33_WitnessNotReady ==
  /\ checkRuns > 0
  /\ ~IsSpellCheckerReady

(***************************************************************************)
(* C34: for one client id at most one request reaches the paid model in    *)
(* any interval of 2000 ms and at most 20 in a minute, also when the       *)
(* handlers of several requests of the client interleave at their awaits;  *)
(* every other request is answered 429 without a call of the model.        *)
(***************************************************************************)
C34_ServerThrottle ==
  /\ \A a, b \in modelCalls :
       (a.id # b.id /\ a.client = b.client /\ a.at <= b.at) =>
         b.at - a.at >= THROTTLE_INTERVAL
  /\ \A a \in modelCalls :
       Cardinality({ b \in modelCalls :
                       /\ b.client = a.client
                       /\ a.at <= b.at
                       /\ b.at - a.at < RATE_WINDOW_MS })
         <= MAX_REQUESTS_PER_MINUTE
  /\ \A id \in DOMAIN responses :
       responses[id].status = 429 => \A call \in modelCalls : call.id # id

(***************************************************************************)
(* C35: in every reachable state of the engine pendingSaves[id] is true    *)
(* exactly when a persistence call for id is in flight or a retry timer    *)
(* for id is armed.                                                        *)
(***************************************************************************)
C35_PendingFlag ==
  \A d \in Docs :
    (d \in DOMAIN pendingSaves /\ pendingSaves[d])
      <=> (CountOf(inflight, d) > 0 \/ CountOf(retryTimers, d) > 0)

(***************************************************************************)
(* The hooks of the grammar check with their scheduling: an armed timer    *)
(* becomes due and fires, and a request sent to the oracle is answered or  *)
(* fails. Nothing obliges the user to edit or to press the button again.   *)
(***************************************************************************)
TimerArmed == timeoutRef # {} \/ timeoutId # {}

CheckerFairness ==
  /\ WF_vars(IdleTimerFires /\ UNCHANGED besideChecker)
  /\ WF_vars(CheckerTimerFires /\ UNCHANGED besideChecker)
  /\ WF_vars(TimerArmed /\ \E d \in Steps : Elapse(d) /\ UNCHANGED besideChecker)
  /\ WF_vars(\E r \in requests : CheckerFailed(r) /\ UNCHANGED besideChecker)

SpecCheckerLive == InitChecker /\ [][CheckerNext]_vars /\ CheckerFairness

\* the clock of the model has reached its last step
ClockStopped == ticks = MaxSteps

(***************************************************************************)
(* C36: whenever checkGrammar of the hook has set isChecking, a result or  *)
(* an error is eventually delivered and isChecking returns to false (or    *)
(* the clock of the model stops first), also when the sentence is the one  *)
(* checked last and when the timer fires during a check in flight.         *)
(***************************************************************************)
C36_CheckingTerminates == ui.isChecking ~> (~ui.isChecking \/ ClockStopped)

(***************************************************************************)
(* C37: a DebouncedGrammarChecker never has two checkGrammar calls in      *)
(* flight; a timer that fires while a check is in flight sends no request  *)
(* to the oracle, delivers no callback and does not record its sentence as *)
(* checked, so that scheduleCheck accepts the sentence again later.        *)
(***************************************************************************)
C37_OneCheckInFlight ==
  [][ /\ Cardinality(requests') <= 1
      /\ (isChecking /\ timeoutId # {} /\ timeoutId' = {}) =>
           /\ isChecking'
           /\ requests' = requests
           /\ requestCount' = requestCount
           /\ ui' = ui
           /\ checkLog' = checkLog
           /\ lastCheckedText' = lastCheckedText
           /\ \A timer \in timeoutId : timer.sentence # lastCheckedText'
    ]_vars

\* C37 witness: the timer of the sentence scheduled last has fired during
\* the check of another sentence, which is still in flight
C37_Witness ==
  /\ isChecking
  /\ requests # {}
  /\ timeoutId = {}
  /\ lastSchedule.n > 0
  /\ ~lastSchedule.skipped
  /\ lastSchedule.sentence # lastCheckedText

(***************************************************************************)
(* C38: initializeDocument(id, c) records c as the last saved content and  *)
(* the empty string as the last saved title; the recorded title stays      *)
(* empty until a save carrying a title has succeeded, and until then every *)
(* scheduleAutosave that the pendingSaves guard lets through with a title  *)
(* that is not empty is judged dirty and arms a save of its payload,       *)
(* whatever its content, the unchanged title and content of the document   *)
(* included.                                                               *)
(***************************************************************************)
C38_TitleBaseline ==
  [][\A d \in Docs :
       /\ (opened'[d] /\ ~opened[d]) =>
            /\ lastTitle'[d] = ""
            /\ lastContent'[d] = persisted[d].content
       /\ (MapGet(lastTitle', d, "") # "" /\
             MapGet(lastTitle', d, "") # MapGet(lastTitle, d, "")) =>
            \E c \in BagToSet(inflight) :
              /\ c.doc = d
              /\ Has(c.data, "title")
              /\ c.data.title = lastTitle'[d]
              /\ CountOf(inflight', d) < CountOf(inflight, d)
              /\ persisted'[d].title = lastTitle'[d]
       /\ \A data \in Payloads :
            ( /\ ~MapGet(pendingSaves, d, FALSE)
              /\ MapGet(lastTitle, d, "") = ""
              /\ Has(data, "title")
              /\ data.title # ""
              /\ ScheduleAutosave(d, data) )
            => /\ GetState(states', d).isDirty
               /\ StatusOf(d)' = "pending"
               /\ d \in DOMAIN timers'
               /\ timers'[d] \in DOMAIN armed'
               /\ armed'[timers'[d]].data = data
    ]_vars

\* C38 witness: the document was opened again after its title and content
\* had been saved, and a scheduleAutosave with exactly that title and
\* content has armed a save
C38_Witness ==
  \E d \in Docs : \E data \in lastSched[d] :
    /\ opened[d]
    /\ lastCall[d].op = "scheduleAutosave"
    /\ lastCall[d].effect = "armed"
    /\ lastTitle[d] = ""
    /\ Has(data, "title") /\ data.title = persisted[d].title
    /\ Has(data, "content") /\ data.content = lastContent[d]
    /\ data.content = persisted[d].content

(***************************************************************************)
(* C39: applySuggestion and dismissSuggestion of the grammar hook and      *)
(* applySuggestion of the spelling hook, called with an index below 0 or   *)
(* not below the length of the list, leave the list as it is; the spelling *)
(* applySuggestion then returns the empty string, not the suggestion.      *)
(***************************************************************************)
OutOfRange(list, index) == index < 0 \/ index >= Len(list)

C39_OutOfRangeNoOp ==
  [][/\ \A index \in Indexes, newText \in Fixes :
          ( /\ OutOfRange(ui.suggestions, index)
            /\ ApplySuggestion(index, newText) \/ DismissSuggestion(index) )
          => ui' = ui
     /\ \A index \in Indexes, suggestion \in Fixes :
          ( /\ OutOfRange(errors, index)
            /\ SpellApplySuggestion(index, suggestion) )
          => /\ errors' = errors
             /\ returned' = {""}
             /\ returned' # {suggestion}]_vars

\* C39 witness: applySuggestion of the spelling hook has returned the empty
\* string on a list of two errors, which is still there, as are the two
\* suggestions of the grammar hook
C39_Witness ==
  /\ returned = {""}
  /\ errors = << "e1", "e2" >>
  /\ Len(ui.suggestions) = 2
====
